---------------------------- MODULE Spec2Model ----------------------------
(***************************************************************************)
(* Model of copium, a deep-copy engine for Python object graphs.  The      *)
(* repository holds two drafts of the engine:                              *)
(*   - src/src/rust/*.rs : the generic walk over a Memo (pooled table or   *)
(*     user-provided dict): deepcopy_impl, deepcopy_recursive, the         *)
(*     container cloners and the reduce protocol;                          *)
(*   - src/src/*.rs      : the ThreadMemo pool (get/reset_thread_memo),    *)
(*     its MemoTable/KeepVector, and the walk built on dispatch_copy.      *)
(* Definitions of the second draft whose names clash with the first carry  *)
(* the prefix ts_ (thread-state crate).                                    *)
(* Every Rust function is an operator taking and returning the machine     *)
(* state `st` (heap, memo, retention buffer, event log).                   *)
(***************************************************************************)
EXTENDS Integers, Sequences, FiniteSets, TLC

NULL == 0

\* let v = value in K(v): the value is computed once and handed to K
Bind(value, K(_)) == K(value)

\* ------------------------------------------------------------------------
\* 64-bit unsigned arithmetic on eight little-endian byte limbs.
\* ------------------------------------------------------------------------
Limbs == 1..8

RECURSIVE XorBits(_, _, _)
XorBits(a, b, n) ==
    IF n = 0 THEN 0
    ELSE (((a % 2) + (b % 2)) % 2) + 2 * XorBits(a \div 2, b \div 2, n - 1)

Xor64(x, y) == [i \in Limbs |-> XorBits(x[i], y[i], 8)]

\* x >> 33 : four whole bytes and one bit
Shr33(x) ==
    LET at(i) == IF i \in Limbs THEN x[i] ELSE 0
    IN
        [i \in Limbs |-> (at(i + 4) \div 2) + (128 * (at(i + 5) % 2))]

RECURSIVE MulLimb(_, _, _, _)
MulLimb(x, c, k, carry) ==
    IF k > 8 THEN <<>>
    ELSE LET RECURSIVE Sum(_)
             Sum(i) == IF i > k THEN 0 ELSE (x[i] * c[k + 1 - i]) + Sum(i + 1)
             t == Sum(1) + carry
         IN
             <<t % 256>> \o MulLimb(x, c, k + 1, t \div 256)

\* wrapping_mul
Mul64(x, c) == MulLimb(x, c, 1, 0)

RECURSIVE ToLimbs(_, _)
ToLimbs(n, k) == IF k = 0 THEN <<>> ELSE <<n % 256>> \o ToLimbs(n \div 256, k - 1)

\* 0xff51afd7ed558ccd
FMIX_C1 == <<205, 140, 85, 237, 215, 175, 81, 255>>
\* 0xc4ceb9fe1a85ec53
FMIX_C2 == <<83, 236, 133, 26, 254, 185, 206, 196>>

\* a hash that mixes the page of the address only
fmix64_page(ptr) ==
    LET h0 == ToLimbs(ptr \div 4096, 8)
        h1 == Xor64(h0, Shr33(h0))
        h2 == Mul64(h1, FMIX_C1)
    IN
        Xor64(h2, Shr33(h2))

\* the 64-bit finalizer, as limbs
fmix64(ptr) ==
    LET h0 == ToLimbs(ptr, 8)
        h1 == Xor64(h0, Shr33(h0))
        h2 == Mul64(h1, FMIX_C1)
        h3 == Xor64(h2, Shr33(h2))
    IN
    Bind(Mul64(h3, FMIX_C2), LAMBDA h4 :
        Xor64(h4, Shr33(h4)))

\* (hash as usize) & mask, for mask = size - 1 and size a power of two < 2^24
HashIndex(hash, size) == (hash[1] + (256 * hash[2]) + (65536 * hash[3])) % size

\* The address of the object with identity id: objects are 16-byte aligned
\* and lie above the first page.
AddrOf(id) == 4096 + (16 * id)

\* the addresses objects can have
MaxObjects == 255
Pointers == {AddrOf(id) : id \in 1..MaxObjects}

PointerHashes == [ptr \in Pointers |-> fmix64(ptr)]

\* rust/ffi.rs hash_pointer
hash_pointer(ptr) == PointerHashes[ptr]

\* ------------------------------------------------------------------------
\* Py_IncRef / Py_DecRef, as seen from one owner: refs maps an object to the
\* number of references the owner has taken and not yet given back
\* ------------------------------------------------------------------------
NoRefs == [v \in {} |-> 0]

Held(refs, v) == IF v \in DOMAIN refs THEN refs[v] ELSE 0

Py_IncRef(refs, v) ==
    IF v = NULL THEN refs
    ELSE [x \in (DOMAIN refs \cup {v}) \ (IF Held(refs, v) = 0 - 1 THEN {v} ELSE {}) |->
             IF x = v THEN Held(refs, v) + 1 ELSE refs[x]]

Py_DecRef(refs, v) ==
    IF v = NULL THEN refs
    ELSE [x \in (DOMAIN refs \cup {v}) \ (IF Held(refs, v) = 1 THEN {v} ELSE {}) |->
             IF x = v THEN Held(refs, v) - 1 ELSE refs[x]]

\* the references left after one Py_DecRef for every element of items
ReleaseItems(refs, items) ==
    LET stored(v) == Cardinality({i \in DOMAIN items : items[i] = v})
        values == (DOMAIN refs \cup {items[i] : i \in DOMAIN items}) \ {NULL}
    IN
        [v \in {x \in values : Held(refs, x) # stored(x)} |-> Held(refs, v) - stored(v)]

\* ------------------------------------------------------------------------
\* rust/memo.rs : MemoTable.  slots maps the occupied indices of the slot
\* array to the entry stored there; every other index holds a null key.
\* refs counts the references to values the table has taken.
\* ------------------------------------------------------------------------
TOMBSTONE == -1
MAX_SLOTS == 131072
SHRINK_TO == 8192
NEW_CAPACITY == 16

EmptySlots == [i \in {} |-> [key |-> NULL, value |-> NULL]]

MemoTable_with_capacity(capacity) ==
    [size |-> capacity, used |-> 0, filled |-> 0, slots |-> EmptySlots, refs |-> NoRefs]

\* the constructor that allocates nothing
MemoTable_new_unallocated == MemoTable_with_capacity(0)

MemoTable_new == MemoTable_with_capacity(NEW_CAPACITY)

RECURSIVE LookupProbe(_, _, _)
LookupProbe(t, key, idx) ==
    IF idx \notin DOMAIN t.slots THEN NULL
    ELSE IF t.slots[idx].key = key THEN t.slots[idx].value
    ELSE LookupProbe(t, key, (idx + 1) % t.size)

MemoTable_lookup(t, key, hash) ==
    IF t.size = 0 THEN NULL ELSE LookupProbe(t, key, HashIndex(hash, t.size))

RECURSIVE InsertProbe(_, _, _, _)
InsertProbe(t, key, value, idx) ==
    IF idx \notin DOMAIN t.slots
    THEN [t EXCEPT !.slots = (idx :> [key |-> key, value |-> value]) @@ @,
                   !.filled = @ + 1, !.used = @ + 1,
                   !.refs = Py_IncRef(@, value)]
    ELSE IF t.slots[idx].key = TOMBSTONE
    THEN [t EXCEPT !.slots[idx] = [key |-> key, value |-> value], !.used = @ + 1,
                   !.refs = Py_IncRef(@, value)]
    ELSE IF t.slots[idx].key = key
    THEN [t EXCEPT !.slots[idx].value = value,
                   !.refs = Py_DecRef(Py_IncRef(@, value), t.slots[idx].value)]
    ELSE InsertProbe(t, key, value, (idx + 1) % t.size)

MemoTable_insert_unchecked(t, key, value, hash) ==
    InsertProbe(t, key, value, HashIndex(hash, t.size))

RECURSIVE RehashFrom(_, _, _)
RehashFrom(t, old, todo) ==
    IF todo = {} THEN t
    ELSE LET i == CHOOSE j \in todo : \A k \in todo : j <= k
             e == old[i]
         IN
             IF e.key = TOMBSTONE THEN RehashFrom(t, old, todo \ {i})
             ELSE RehashFrom(
                    [MemoTable_insert_unchecked(t, e.key, e.value,
                                                hash_pointer(e.key))
                        EXCEPT !.refs = Py_DecRef(@, e.value)],
                    old, todo \ {i})

MemoTable_resize(t, new_capacity) ==
    RehashFrom([MemoTable_with_capacity(new_capacity) EXCEPT !.refs = t.refs],
               t.slots, DOMAIN t.slots)

MemoTable_insert(t, key, value, hash) ==
    LET t1 == IF t.filled * 10 >= t.size * 7
              THEN MemoTable_resize(t, IF t.size = 0 THEN NEW_CAPACITY ELSE t.size * 2)
              ELSE t
    IN
        MemoTable_insert_unchecked(t1, key, value, hash)

\* the references left after one Py_DecRef for every live slot
ReleaseLive(refs, slots) ==
    LET live(v) == Cardinality({i \in DOMAIN slots :
                                  slots[i].key # TOMBSTONE /\ slots[i].value = v})
        values == DOMAIN refs \cup {slots[i].value : i \in DOMAIN slots}
    IN
        [v \in {x \in values : Held(refs, x) # live(x)} |-> Held(refs, v) - live(v)]

MemoTable_clear(t) ==
    [t EXCEPT !.slots = EmptySlots, !.used = 0, !.filled = 0,
              !.refs = ReleaseLive(@, t.slots)]

\* Drop for MemoTable: clear(), then the Vec of slots is freed
MemoTable_drop(t) == [MemoTable_clear(t) EXCEPT !.size = 0]

MemoTable_shrink_if_large(t) ==
    IF t.size > MAX_SLOTS THEN MemoTable_resize(t, SHRINK_TO) ELSE t

\* live entries of a table, as a set of <<key, value>>
LiveEntries(t) ==
    {<<t.slots[i].key, t.slots[i].value>> : i \in {j \in DOMAIN t.slots : t.slots[j].key # TOMBSTONE}}

\* ------------------------------------------------------------------------
\* rust/keepalive.rs : KeepAlive.  cap is the Vec's capacity.
\* ------------------------------------------------------------------------
MAX_CAPACITY == 8192
KEEP_SHRINK_TO == 1024
KEEP_INITIAL == 16

KeepAlive_new == [items |-> <<>>, cap |-> KEEP_INITIAL, refs |-> NoRefs]

Max(a, b) == IF a >= b THEN a ELSE b

\* Vec::push doubles the capacity when full
KeepAlive_append(k, obj) ==
    IF obj = NULL THEN k
    ELSE [items |-> Append(k.items, obj),
          cap   |-> IF Len(k.items) = k.cap THEN Max(2 * k.cap, 4) ELSE k.cap,
          refs  |-> Py_IncRef(k.refs, obj)]

KeepAlive_clear(k) == [k EXCEPT !.items = <<>>, !.refs = ReleaseItems(@, k.items)]

\* Vec::shrink_to(n): capacity becomes max(len, n) when it was larger
KeepAlive_shrink_if_large(k) ==
    IF k.cap > MAX_CAPACITY
    THEN [k EXCEPT !.cap = Max(Len(k.items), KEEP_SHRINK_TO)]
    ELSE k

\* ------------------------------------------------------------------------
\* The host's object graph.  Every object is a record of one shape:
\*   kind  : its exact type ("obj" for an instance of a user class)
\*   val   : the payload of a scalar (what == compares), 0 otherwise
\*   keys  : a mapping's keys, in insertion order (for an instance: the
\*           keys of the mapping items it yields on decomposition)
\*   vals  : the values stored under keys, position by position
\*   items : a sequence's or set's elements (for an instance: the
\*           sequence items it yields on decomposition)
\*   cls   : the user class of an instance ("" otherwise)
\*   attrs : the instance's attribute mapping (__dict__), or NULL
\*   args  : the constructor arguments an instance decomposes to
\* ------------------------------------------------------------------------
Obj(kind, val, keys, vals, items, cls, attrs, args) ==
    [kind |-> kind, val |-> val, keys |-> keys, vals |-> vals, items |-> items,
     cls |-> cls, attrs |-> attrs, args |-> args]

Scalar(kind, val) == Obj(kind, val, <<>>, <<>>, <<>>, "", NULL, <<>>)
Seq_(kind, items) == Obj(kind, 0, <<>>, <<>>, items, "", NULL, <<>>)
Dict_(keys, vals) == Obj("dict", 0, keys, vals, <<>>, "", NULL, <<>>)
Inst(cls, attrs, args) == Obj("obj", 0, <<>>, <<>>, <<>>, cls, attrs, args)
TypeObj(cls) == Obj("type", 0, <<>>, <<>>, <<>>, cls, NULL, <<>>)

\* allocation: identities are handed out in order and never reused
Alloc(st, o) ==
    [st EXCEPT !.heap = Append(@, o)]
NewId(st) == Len(st.heap) + 1

\* the event log of the walk
Log(st, ev, m, k, v) ==
    [st EXCEPT !.log = Append(@, [ev |-> ev, op |-> m.op, k |-> k, v |-> v])]

Ok(st, v) == [st |-> st, ok |-> TRUE, v |-> v, e |-> ""]
Err(st, e) == [st |-> st, ok |-> FALSE, v |-> NULL, e |-> e]

\* rust/ffi.rs is_immutable_literal: exact None, int, float, str, bytes, bool
is_immutable_literal(o) ==
    o.kind \in {"none", "int", "float", "str", "bytes", "bool"}

\* rust/types.rs classify_type
classify_type(o) ==
    IF is_immutable_literal(o) THEN "ImmutableLiteral"
    ELSE CASE o.kind = "dict" -> "Dict"
           [] o.kind = "list" -> "List"
           [] o.kind = "tuple" -> "Tuple"
           [] o.kind = "set" -> "Set"
           [] o.kind = "frozenset" -> "FrozenSet"
           [] o.kind = "bytearray" -> "ByteArray"
           [] OTHER -> "RequiresReduce"

\* ------------------------------------------------------------------------
\* Host dictionary and list primitives (CPython API used through rust/ffi.rs)
\* ------------------------------------------------------------------------
\* == on keys: identity, or equal scalars of one kind
KeyEq(h, a, b) ==
    \/ a = b
    \/ /\ h[a].kind = h[b].kind
       /\ h[a].kind \in {"int", "str", "bytes", "float", "bool"}
       /\ h[a].val = h[b].val

\* hash(): scalars, tuples of hashables, frozensets, instances, types
RECURSIVE Hashable(_, _, _)
Hashable(h, a, fuel) ==
    CASE h[a].kind \in {"dict", "list", "set", "bytearray"} -> FALSE
      [] h[a].kind = "tuple" ->
            fuel > 0 /\ \A i \in DOMAIN h[a].items : Hashable(h, h[a].items[i], fuel - 1)
      [] OTHER -> TRUE

KeyIndex(h, d, k) ==
    LET hit == {i \in DOMAIN h[d].keys : KeyEq(h, h[d].keys[i], k)}
    IN
        IF hit = {} THEN 0 ELSE CHOOSE i \in hit : TRUE

\* PyDict_GetItem with an int key of value n (no key object is retained)
PyDict_GetItemInt(h, d, n) ==
    LET hit == {i \in DOMAIN h[d].keys :
                   h[h[d].keys[i]].kind = "int" /\ h[h[d].keys[i]].val = n}
    IN
        IF hit = {} THEN NULL ELSE h[d].vals[CHOOSE i \in hit : TRUE]

\* PyDict_SetItem(d, k, v) on the heap h; an existing equal key keeps its
\* key object and gets the new value
PyDict_SetItem(h, d, k, v) ==
    LET i == KeyIndex(h, d, k)
    IN
        IF i = 0
        THEN [h EXCEPT ![d].keys = Append(@, k), ![d].vals = Append(@, v)]
        ELSE [h EXCEPT ![d].vals[i] = v]

\* memo[key] = v where key is a fresh int object of value n
PyDict_SetItemInt(st, d, n, v) ==
    LET hit == {i \in DOMAIN st.heap[d].keys :
                   st.heap[st.heap[d].keys[i]].kind = "int"
                   /\ st.heap[st.heap[d].keys[i]].val = n}
    IN
        IF hit = {}
        THEN LET k == NewId(st)
                 s1 == Alloc(st, Scalar("int", n))
             IN
                 [s1 EXCEPT !.heap = PyDict_SetItem(@, d, k, v)]
        ELSE [st EXCEPT !.heap[d].vals[CHOOSE i \in hit : TRUE] = v]

PyList_Append(h, l, x) == [h EXCEPT ![l].items = Append(@, x)]

\* PySet_Add: an element equal to one already present is not added again
PySet_Add(h, s, x) ==
    IF \E i \in DOMAIN h[s].items : KeyEq(h, h[s].items[i], x)
    THEN h ELSE [h EXCEPT ![s].items = Append(@, x)]

\* ------------------------------------------------------------------------
\* User classes: what an instance's hooks do when the engine calls them.
\*   dc       : __deepcopy__   none | fresh | self | raise | deep | nested
\*   rex, red : __reduce_ex__(4), __reduce__()
\*              noattr | typeerror | raise | str | nontuple | tuple
\*   rexn,redn: the arity of the tuple the hook returns
\*   ctor     : the constructor   ok | typeerror | raise
\*   setstate : __setstate__   none | ok | raise
\* ------------------------------------------------------------------------
Script(dc, rex, rexn, red, redn, ctor, setstate) ==
    [dc |-> dc, rex |-> rex, rexn |-> rexn, red |-> red, redn |-> redn,
     ctor |-> ctor, setstate |-> setstate]

ClassTable ==
    [c \in {"Plain", "Args2", "Items5", "Six", "SixBoth", "Basic6", "Str", "One",
            "NonTuple", "Unpick", "RexRaise", "NoReduce", "CtorBad", "CtorTE",
            "SetState", "SetStateBad", "Hook", "HookSelf", "HookRaise",
            "HookDeep", "HookNested", "ItemsBad", "HookMutate",
            "dict"} |->
       CASE c = "Plain"       -> Script("none", "tuple", 3, "tuple", 3, "ok", "none")
         [] c = "Args2"       -> Script("none", "tuple", 2, "tuple", 2, "ok", "none")
         [] c = "Items5"      -> Script("none", "tuple", 5, "tuple", 5, "ok", "none")
         [] c = "Six"         -> Script("none", "tuple", 6, "tuple", 2, "ok", "none")
         [] c = "SixBoth"     -> Script("none", "tuple", 6, "tuple", 6, "ok", "none")
         [] c = "Basic6"      -> Script("none", "noattr", 0, "tuple", 6, "ok", "none")
         [] c = "Str"         -> Script("none", "str", 0, "str", 0, "ok", "none")
         [] c = "One"         -> Script("none", "tuple", 1, "tuple", 1, "ok", "none")
         [] c = "NonTuple"    -> Script("none", "nontuple", 0, "nontuple", 0, "ok", "none")
         [] c = "Unpick"      -> Script("none", "typeerror", 0, "typeerror", 0, "ok", "none")
         [] c = "RexRaise"    -> Script("none", "raise", 0, "tuple", 3, "ok", "none")
         [] c = "NoReduce"    -> Script("none", "noattr", 0, "noattr", 0, "ok", "none")
         [] c = "CtorBad"     -> Script("none", "tuple", 2, "tuple", 2, "raise", "none")
         [] c = "CtorTE"      -> Script("none", "tuple", 2, "tuple", 2, "typeerror", "none")
         [] c = "SetState"    -> Script("none", "tuple", 3, "tuple", 3, "ok", "ok")
         [] c = "SetStateBad" -> Script("none", "tuple", 3, "tuple", 3, "ok", "raise")
         [] c = "Hook"        -> Script("fresh", "tuple", 3, "tuple", 3, "ok", "none")
         [] c = "HookSelf"    -> Script("self", "tuple", 3, "tuple", 3, "ok", "none")
         [] c = "HookRaise"   -> Script("raise", "tuple", 3, "tuple", 3, "ok", "none")
         [] c = "HookDeep"    -> Script("deep", "tuple", 3, "tuple", 3, "ok", "none")
         [] c = "HookNested"  -> Script("nested", "tuple", 3, "tuple", 3, "ok", "none")
         [] c = "ItemsBad"    -> Script("none", "tuple", 5, "tuple", 5, "ok", "raise")
         [] c = "HookMutate"  -> Script("mutate", "tuple", 3, "tuple", 3, "ok", "none")
         [] c = "dict"        -> Script("none", "tuple", 3, "tuple", 3, "ok", "none")]

\* A class object: its attribute lookup finds the functions the class
\* defines, unbound; calling one with a single argument raises TypeError.
TypeScript(cls) ==
    Script(IF ClassTable[cls].dc = "none" THEN "none" ELSE "unbound",
           "typeerror", 0, "typeerror", 0, "ok", "none")

ScriptOf(o) == IF o.kind = "obj" THEN ClassTable[o.cls] ELSE TypeScript(o.cls)

\* rust/types.rs has_deepcopy
has_deepcopy(o) == ScriptOf(o).dc # "none"

\* ------------------------------------------------------------------------
\* The Memo trait (rust/memo_trait.rs).  A memo handle m is
\*   [user |-> TRUE,  dict, keepalive_list, op]   rust/user_memo.rs
\*   [user |-> FALSE, slot, op]                   the pooled pair st.tls[slot]
\* op numbers the top-level operation the handle belongs to.
\* ------------------------------------------------------------------------
UserProvidedMemo_lookup(st, m, key) == PyDict_GetItemInt(st.heap, m.dict, AddrOf(key))

UserProvidedMemo_insert(st, m, key, value) ==
    Bind(PyDict_SetItemInt(st, m.dict, AddrOf(key), value), LAMBDA s1 :
        IF m.keepalive_list # NULL /\ key # NULL
        THEN [s1 EXCEPT !.heap = PyList_Append(@, m.keepalive_list, key)]
        ELSE s1)

UserProvidedMemo_keepalive(st, m, obj) ==
    IF m.keepalive_list # NULL
    THEN [st EXCEPT !.heap = PyList_Append(@, m.keepalive_list, obj)]
    ELSE st

\* UserProvidedMemo::new : a new list stored under id(memo), whatever was there
UserProvidedMemo_new(st, dict, op) ==
    LET kl == NewId(st)
        s1 == Alloc(st, Seq_("list", <<>>))
        s2 == PyDict_SetItemInt(s1, dict, AddrOf(dict), kl)
    IN
        [st |-> s2,
         m  |-> [user |-> TRUE, dict |-> dict, keepalive_list |-> kl, slot |-> 0, op |-> op]]

ThreadLocalMemo_lookup(st, m, key, hash) ==
    MemoTable_lookup(st.tls[m.slot].table, AddrOf(key), hash)

ThreadLocalMemo_insert(st, m, key, value, hash) ==
    [st EXCEPT !.tls[m.slot].table = MemoTable_insert(@, AddrOf(key), value, hash)]

ThreadLocalMemo_keepalive(st, m, obj) ==
    [st EXCEPT !.tls[m.slot].keepalive = KeepAlive_append(@, obj)]

\* the new references on the value found that a lookup takes for its caller:
\* UserProvidedMemo::lookup returns Some(Py_NewRef(value)), MemoTable::lookup
\* returns Some(entry.value), the pointer the slot holds
UserProvidedMemo_lookup_refs(v) == IF v = NULL THEN 0 ELSE 1
MemoTable_lookup_refs(v) == 0
ThreadLocalMemo_lookup_refs(v) == MemoTable_lookup_refs(v)

\* a lookup event carries refs, the new references taken on the value found
\* from the lookup on
Memo_lookup(st, m, key, hash) ==
    LET v == IF m.user THEN UserProvidedMemo_lookup(st, m, key)
             ELSE ThreadLocalMemo_lookup(st, m, key, hash)
        refs == IF m.user THEN UserProvidedMemo_lookup_refs(v)
                ELSE ThreadLocalMemo_lookup_refs(v)
    IN
        [st |-> [st EXCEPT !.log = Append(@, [ev |-> "lookup", op |-> m.op, k |-> key,
                                              v |-> v, refs |-> refs])],
         v |-> v]

\* Py_NewRef(cached) of the caller of the lookup just made
Py_NewRef_cached(st) == [st EXCEPT !.log[Len(st.log)].refs = @ + 1]

Memo_insert(st, m, key, value, hash) ==
    Log(IF m.user THEN UserProvidedMemo_insert(st, m, key, value)
        ELSE ThreadLocalMemo_insert(st, m, key, value, hash),
        "insert", m, key, value)

Memo_keepalive(st, m, obj) ==
    Log(IF m.user THEN UserProvidedMemo_keepalive(st, m, obj)
        ELSE ThreadLocalMemo_keepalive(st, m, obj),
        "keepalive", m, obj, NULL)

\* ------------------------------------------------------------------------
\* The walk (rust/deepcopy_impl.rs, rust/dispatch.rs, rust/containers.rs,
\* rust/reduce.rs).  Every operator returns [st, ok, v, e]: the state after
\* the call, and Ok(v) or Err(e).  d is the stack the call may still use.
\* ------------------------------------------------------------------------
RECURSIVE deepcopy_recursive(_, _, _, _)
RECURSIVE dispatch_deepcopy(_, _, _, _, _, _)
RECURSIVE deepcopy_impl(_, _, _, _)
RECURSIVE DictLoop(_, _, _, _, _, _)
RECURSIVE ListLoop(_, _, _, _, _, _, _)
RECURSIVE TupleLoop(_, _, _, _, _, _, _, _)
RECURSIVE SetLoop(_, _, _, _, _, _)
RECURSIVE FrozenLoop(_, _, _, _, _, _)
RECURSIVE ListItemsLoop(_, _, _, _, _, _)
RECURSIVE DictItemsLoop(_, _, _, _, _, _)
RECURSIVE DeepHookArgs(_, _, _, _, _, _)

Nulls(n) == [i \in 1..n |-> NULL]

\* while PyDict_Next(dict, &pos, ..): position i of the live mapping
DictLoop(st, dict, new_dict, m, d, i) ==
    IF i > Len(st.heap[dict].keys) THEN Ok(st, new_dict)
    ELSE Bind(deepcopy_recursive(st, st.heap[dict].keys[i], m, d), LAMBDA rk :
             IF ~rk.ok THEN rk
             ELSE Bind(deepcopy_recursive(rk.st, rk.st.heap[dict].vals[i], m, d), LAMBDA rv :
                      IF ~rv.ok THEN rv
                      ELSE IF ~Hashable(rv.st.heap, rk.v, Len(rv.st.heap))
                      THEN Err(rv.st, "Failed to insert into new dict")
                      ELSE DictLoop([rv.st EXCEPT !.heap = PyDict_SetItem(@, new_dict, rk.v, rv.v)],
                                    dict, new_dict, m, d, i + 1)))

\* the mapping handler that registers its clone after the walk of the items
deepcopy_dict_late(st, dict, m, d) ==
    LET new_dict == NewId(st)
        s1 == Log(Alloc(st, Dict_(<<>>, <<>>)), "build", m, dict, new_dict)
    IN
    Bind(DictLoop(s1, dict, new_dict, m, d, 1), LAMBDA r :
        IF ~r.ok THEN r
        ELSE Ok(Memo_insert(r.st, m, dict, new_dict, hash_pointer(AddrOf(dict))), new_dict))

deepcopy_dict(st, dict, m, d) ==
    LET new_dict == NewId(st)
        s1 == Log(Alloc(st, Dict_(<<>>, <<>>)), "build", m, dict, new_dict)
        s2 == Memo_insert(s1, m, dict, new_dict, hash_pointer(AddrOf(dict)))
    IN
        DictLoop(s2, dict, new_dict, m, d, 1)

\* the element loop storing the source's element instead of its clone
ListLoop_shallow(st, list, new_list, size, m, d, i) ==
    IF i > size THEN Ok(st, new_list)
    ELSE LET r == deepcopy_recursive(st, st.heap[list].items[i], m, d)
         IN
             IF ~r.ok THEN r
             ELSE ListLoop(
                    [r.st EXCEPT !.heap[new_list].items[i] = st.heap[list].items[i]],
                    list, new_list, size, m, d, i + 1)

ListLoop(st, list, new_list, size, m, d, i) ==
    IF i > size THEN Ok(st, new_list)
    ELSE IF i > Len(st.heap[list].items) THEN Err(st, "Failed to get list item")
    ELSE Bind(deepcopy_recursive(st, st.heap[list].items[i], m, d), LAMBDA r :
             IF ~r.ok THEN r
             ELSE ListLoop([r.st EXCEPT !.heap[new_list].items[i] = r.v],
                           list, new_list, size, m, d, i + 1))

\* deepcopy_list registering the clone only after its elements are cloned
deepcopy_list_late(st, list, m, d) ==
    LET size == Len(st.heap[list].items)
        new_list == NewId(st)
        s1 == Log(Alloc(st, Seq_("list", Nulls(size))), "build", m, list, new_list)
        s3 == Memo_keepalive(s1, m, list)
        r == ListLoop(s3, list, new_list, size, m, d, 1)
    IN
        IF ~r.ok THEN r
        ELSE Ok(Memo_insert(r.st, m, list, new_list, hash_pointer(AddrOf(list))), new_list)

deepcopy_list(st, list, m, d) ==
    LET size == Len(st.heap[list].items)
        new_list == NewId(st)
        s1 == Log(Alloc(st, Seq_("list", Nulls(size))), "build", m, list, new_list)
        s2 == Memo_insert(s1, m, list, new_list, hash_pointer(AddrOf(list)))
        s3 == Memo_keepalive(s2, m, list)
    IN
        ListLoop(s3, list, new_list, size, m, d, 1)

TupleLoop(st, tuple, new_tuple, size, m, d, i, all_identical) ==
    IF i > size THEN [st |-> st, ok |-> TRUE, v |-> new_tuple, e |-> "",
                      all_identical |-> all_identical]
    ELSE LET item == st.heap[tuple].items[i]
         IN
         Bind(deepcopy_recursive(st, item, m, d), LAMBDA r :
             IF ~r.ok THEN [st |-> r.st, ok |-> FALSE, v |-> NULL, e |-> r.e,
                              all_identical |-> FALSE]
             ELSE TupleLoop([r.st EXCEPT !.heap[new_tuple].items[i] = r.v],
                            tuple, new_tuple, size, m, d, i + 1,
                            all_identical /\ r.v = item))

\* deepcopy_tuple without the all-identical short-circuit
deepcopy_tuple_always_new(st, tuple, hash, m, d) ==
    LET size == Len(st.heap[tuple].items)
        new_tuple == NewId(st)
        s1 == Log(Alloc(st, Seq_("tuple", Nulls(size))), "build", m, tuple, new_tuple)
        r == TupleLoop(s1, tuple, new_tuple, size, m, d, 1, TRUE)
    IN
        IF ~r.ok THEN Err(r.st, r.e)
        ELSE LET c == Memo_lookup(r.st, m, tuple, hash)
             IN
                 IF c.v # NULL
                 THEN Ok(Log(c.st, "discard", m, tuple, new_tuple), c.v)
                 ELSE Ok(Memo_insert(c.st, m, tuple, new_tuple, hash), new_tuple)

\* the fixed-sequence handler that commits its build without looking the
\* sequence up again
deepcopy_tuple_keep_new(st, tuple, hash, m, d) ==
    LET size == Len(st.heap[tuple].items)
        new_tuple == NewId(st)
        s1 == Log(Alloc(st, Seq_("tuple", Nulls(size))), "build", m, tuple, new_tuple)
    IN
    Bind(TupleLoop(s1, tuple, new_tuple, size, m, d, 1, TRUE), LAMBDA r :
        IF ~r.ok THEN Err(r.st, r.e)
        ELSE IF r.all_identical
        THEN Ok(Log(r.st, "discard", m, tuple, new_tuple), tuple)
        ELSE Ok(Memo_insert(Memo_lookup(r.st, m, tuple, hash).st, m, tuple, new_tuple, hash),
                new_tuple))

deepcopy_tuple(st, tuple, hash, m, d) ==
    LET size == Len(st.heap[tuple].items)
        new_tuple == NewId(st)
        s1 == Log(Alloc(st, Seq_("tuple", Nulls(size))), "build", m, tuple, new_tuple)
    IN
    Bind(TupleLoop(s1, tuple, new_tuple, size, m, d, 1, TRUE), LAMBDA r :
        IF ~r.ok THEN Err(r.st, r.e)
        ELSE IF r.all_identical
        THEN Ok(Log(r.st, "discard", m, tuple, new_tuple), tuple)
        ELSE Bind(Memo_lookup(r.st, m, tuple, hash), LAMBDA c :
                 IF c.v # NULL
                 THEN Ok(Log(Py_NewRef_cached(c.st), "discard", m, tuple, new_tuple), c.v)
                 ELSE Ok(Memo_insert(c.st, m, tuple, new_tuple, hash), new_tuple)))

\* snapshot is the PySequence_Tuple of the set, taken before the loop
SetLoop(st, snapshot, new_set, m, d, i) ==
    IF i > Len(snapshot) THEN Ok(st, new_set)
    ELSE Bind(deepcopy_recursive(st, snapshot[i], m, d), LAMBDA r :
             IF ~r.ok THEN r
             ELSE IF ~Hashable(r.st.heap, r.v, Len(r.st.heap))
             THEN Err(r.st, "Failed to add to new set")
             ELSE SetLoop([r.st EXCEPT !.heap = PySet_Add(@, new_set, r.v)],
                          snapshot, new_set, m, d, i + 1))

\* the set handler that walks the source set itself, not a snapshot of it
RECURSIVE SetLoop_live(_, _, _, _, _, _)
SetLoop_live(st, set, new_set, m, d, i) ==
    IF i > Len(st.heap[set].items) THEN Ok(st, new_set)
    ELSE Bind(deepcopy_recursive(st, st.heap[set].items[i], m, d), LAMBDA r :
             IF ~r.ok THEN r
             ELSE SetLoop_live([r.st EXCEPT !.heap = PySet_Add(@, new_set, r.v)],
                               set, new_set, m, d, i + 1))

deepcopy_set_live(st, set, m, d) ==
    LET new_set == NewId(st)
        s1 == Log(Alloc(st, Seq_("set", <<>>)), "build", m, set, new_set)
        s2 == Memo_insert(s1, m, set, new_set, hash_pointer(AddrOf(set)))
    IN
        SetLoop_live(s2, set, new_set, m, d, 1)

deepcopy_set(st, set, m, d) ==
    LET snapshot == st.heap[set].items
        new_set == NewId(st)
        s1 == Log(Alloc(st, Seq_("set", <<>>)), "build", m, set, new_set)
        s2 == Memo_insert(s1, m, set, new_set, hash_pointer(AddrOf(set)))
    IN
        SetLoop(s2, snapshot, new_set, m, d, 1)

\* temp_list is the staging list, returned in v as a sequence
FrozenLoop(st, snapshot, temp_list, m, d, i) ==
    IF i > Len(snapshot) THEN [st |-> st, ok |-> TRUE, v |-> temp_list, e |-> ""]
    ELSE Bind(deepcopy_recursive(st, snapshot[i], m, d), LAMBDA r :
             IF ~r.ok THEN r
             ELSE FrozenLoop(r.st, snapshot, Append(temp_list, r.v), m, d, i + 1))

RECURSIVE Dedup(_, _, _)
Dedup(h, xs, acc) ==
    IF xs = <<>> THEN acc
    ELSE Dedup(h, Tail(xs),
               IF \E i \in DOMAIN acc : KeyEq(h, acc[i], Head(xs))
               THEN acc ELSE Append(acc, Head(xs)))

deepcopy_frozenset(st, fset, m, d) ==
    Bind(FrozenLoop(st, st.heap[fset].items, <<>>, m, d, 1), LAMBDA r :
        IF ~r.ok THEN r
        ELSE IF \E i \in DOMAIN r.v : ~Hashable(r.st.heap, r.v[i], Len(r.st.heap))
        THEN Err(r.st, "Failed to create frozenset")
        ELSE Bind(NewId(r.st), LAMBDA new_fset :
             LET s1 == Log(Alloc(r.st, Seq_("frozenset", Dedup(r.st.heap, r.v, <<>>))),
                           "build", m, fset, new_fset)
             IN
                 Ok(Memo_insert(s1, m, fset, new_fset, hash_pointer(AddrOf(fset))),
                    new_fset)))

deepcopy_bytearray(st, ba, m) ==
    LET new_ba == NewId(st)
        s1 == Log(Alloc(st, Scalar("bytearray", st.heap[ba].val)), "build", m, ba, new_ba)
    IN
        Ok(Memo_insert(s1, m, ba, new_ba, hash_pointer(AddrOf(ba))), new_ba)

\* ------------------------------------------------------------------------
\* rust/reduce.rs
\* ------------------------------------------------------------------------
\* The host's call of a decomposition hook.  A tuple result of arity n
\* holds (constructor, args, state, sequence items, mapping items, extra)
\* cut to n; args is a tuple made for this call.
CallReduce(st, obj, m, which) ==
    Bind(ScriptOf(st.heap[obj]), LAMBDA sc :
    Bind(IF which = "reduce_ex" THEN sc.rex ELSE sc.red, LAMBDA how :
    Bind(IF which = "reduce_ex" THEN sc.rexn ELSE sc.redn, LAMBDA n :
    Bind(Log(st, which, m, obj, IF how = "tuple" THEN n ELSE 0), LAMBDA s1 :
        IF how = "tuple" /\ n >= 2
        THEN [st |-> Alloc(s1, Seq_("tuple", st.heap[obj].args)),
              how |-> how, size |-> n, args |-> NewId(s1)]
        ELSE [st |-> s1, how |-> how, size |-> n, args |-> NULL]))))

\* PyDict_Update(target, source)
RECURSIVE PyDict_Update(_, _, _, _)
PyDict_Update(h, target, source, i) ==
    IF i > Len(h[source].keys) THEN h
    ELSE PyDict_Update(PyDict_SetItem(h, target, h[source].keys[i], h[source].vals[i]),
                       target, source, i + 1)

\* the state application that goes on to the attribute mapping after the hook
set_object_state_both(st, obj, state, m) ==
    Bind(ScriptOf(st.heap[obj]), LAMBDA sc :
    LET h == st.heap
        upd(hh, src) == IF hh[obj].attrs = NULL THEN hh
                        ELSE PyDict_Update(hh, hh[obj].attrs, src, 1)
    IN
        IF sc.setstate = "ok"
        THEN [Log(st, "setstate", m, obj, state) EXCEPT !.heap = upd(@, state)]
        ELSE IF sc.setstate = "raise"
        THEN [Log(st, "setstate", m, obj, state) EXCEPT !.heap = upd(@, state)]
        ELSE IF h[state].kind = "dict"
        THEN [st EXCEPT !.heap = upd(@, state)]
        ELSE IF h[state].kind = "tuple" /\ Len(h[state].items) = 2
        THEN LET ds == h[state].items[1]
                 ss == h[state].items[2]
             IN
             Bind(IF h[ds].kind = "dict" THEN upd(h, ds) ELSE h, LAMBDA h1 :
             LET h2 == IF h[ss].kind = "dict" THEN upd(h1, ss) ELSE h1
             IN
                 [st EXCEPT !.heap = h2])
        ELSE st)

set_object_state(st, obj, state, m) ==
    Bind(ScriptOf(st.heap[obj]), LAMBDA sc :
    LET h == st.heap
        upd(hh, src) == IF hh[obj].attrs = NULL THEN hh
                        ELSE PyDict_Update(hh, hh[obj].attrs, src, 1)
    IN
        IF sc.setstate = "ok"
        THEN [Log(st, "setstate", m, obj, state) EXCEPT !.heap[obj].attrs = state]
        ELSE IF sc.setstate = "raise"
        THEN Log(st, "setstate", m, obj, state)
        ELSE IF h[state].kind = "dict"
        THEN [st EXCEPT !.heap = upd(@, state)]
        ELSE IF h[state].kind = "tuple" /\ Len(h[state].items) = 2
        THEN LET ds == h[state].items[1]
                 ss == h[state].items[2]
             IN
             Bind(IF h[ds].kind = "dict" THEN upd(h, ds) ELSE h, LAMBDA h1 :
             LET h2 == IF h[ss].kind = "dict" THEN upd(h1, ss) ELSE h1
             IN
                 [st EXCEPT !.heap = h2])
        ELSE st)

\* each item is cloned and appended; a failed clone skips the item
\* the extension loop that gives up at the first item that fails
ListItemsLoop_stop(st, obj, list_items, m, d, i) ==
    IF i > Len(list_items) THEN st
    ELSE Bind(deepcopy_recursive(st, list_items[i], m, d), LAMBDA r :
             IF ~r.ok THEN r.st
             ELSE ListItemsLoop([r.st EXCEPT !.heap = PyList_Append(@, obj, r.v)],
                                obj, list_items, m, d, i + 1))

ListItemsLoop(st, obj, list_items, m, d, i) ==
    IF i > Len(list_items) THEN st
    ELSE Bind(deepcopy_recursive(st, list_items[i], m, d), LAMBDA r :
             IF ~r.ok THEN ListItemsLoop(r.st, obj, list_items, m, d, i + 1)
             ELSE ListItemsLoop([r.st EXCEPT !.heap = PyList_Append(@, obj, r.v)],
                                obj, list_items, m, d, i + 1))

populate_list_items(st, obj, list_items, m, d) ==
    ListItemsLoop(st, obj, list_items, m, d, 1)

DictItemsLoop(st, obj, original, m, d, i) ==
    IF i > Len(st.heap[original].keys) THEN st
    ELSE Bind(deepcopy_recursive(st, st.heap[original].keys[i], m, d), LAMBDA rk :
             IF ~rk.ok THEN DictItemsLoop(rk.st, obj, original, m, d, i + 1)
             ELSE Bind(deepcopy_recursive(rk.st, rk.st.heap[original].vals[i], m, d), LAMBDA rv :
                      IF ~rv.ok \/ ~Hashable(rv.st.heap, rk.v, Len(rv.st.heap))
                      THEN DictItemsLoop(rv.st, obj, original, m, d, i + 1)
                      ELSE DictItemsLoop(
                             [rv.st EXCEPT !.heap = PyDict_SetItem(@, obj, rk.v, rv.v)],
                             obj, original, m, d, i + 1)))

populate_dict_items(st, obj, original, m, d) ==
    DictItemsLoop(st, obj, original, m, d, 1)

\* PyObject_CallObject(callable, new_args): a new instance of the class
CallConstructor(st, original, new_args, m) ==
    LET o == st.heap[original]
        s1 == Log(st, "ctor", m, original, NULL)
        hasdict == o.attrs # NULL
        s2 == IF hasdict THEN Alloc(s1, Dict_(<<>>, <<>>)) ELSE s1
        new_obj == NewId(s2)
        args == IF st.heap[new_args].kind = "tuple" THEN st.heap[new_args].items ELSE <<>>
    IN
        [st |-> Alloc(s2, Inst(o.cls, IF hasdict THEN NewId(s1) ELSE NULL, args)),
         v |-> new_obj]

reconstruct_from_reduce(st, original, reduced, m, d) ==
    IF reduced.how # "tuple" THEN Ok(st, original)
    ELSE IF reduced.size < 2 THEN Ok(st, original)
    ELSE IF reduced.size > 5 THEN Err(st, "pickle protocol expects at most 5-tuple")
    ELSE
    Bind(deepcopy_recursive(st, reduced.args, m, d), LAMBDA ra :
        IF ~ra.ok THEN ra
        ELSE
        Bind(ScriptOf(ra.st.heap[original]).ctor, LAMBDA ctor :
            IF ctor = "typeerror"
            THEN Err(Log(ra.st, "ctor", m, original, NULL), "PYTHON_EXCEPTION:TypeError")
            ELSE IF ctor = "raise"
            THEN Err(Log(ra.st, "ctor", m, original, NULL), "Failed to reconstruct object")
            ELSE
            Bind(CallConstructor(ra.st, original, ra.v, m), LAMBDA c :
            Bind(c.v, LAMBDA new_obj :
            LET s1 == Log(c.st, "build", m, original, new_obj)
                s2 == Memo_insert(s1, m, original, new_obj, hash_pointer(AddrOf(original)))
            IN
            Bind(Memo_keepalive(s2, m, new_obj), LAMBDA s3 :
            Bind(s3.heap[original].attrs, LAMBDA obj_state :
            Bind(IF reduced.size > 2 /\ obj_state # NULL
                      THEN Bind(deepcopy_recursive(s3, obj_state, m, d), LAMBDA r :
                               IF ~r.ok THEN r
                               ELSE Ok(set_object_state(r.st, new_obj, r.v, m), new_obj))
                      ELSE Ok(s3, new_obj), LAMBDA rs :
                IF ~rs.ok THEN rs
                ELSE
                Bind(IF reduced.size > 3
                          THEN populate_list_items(rs.st, new_obj,
                                                   rs.st.heap[original].items, m, d)
                          ELSE rs.st, LAMBDA s4 :
                LET s5 == IF reduced.size > 4
                          THEN populate_dict_items(s4, new_obj, original, m, d)
                          ELSE s4
                IN
                    Ok(s5, new_obj)))))))))

\* the extended tier that registers the original as its own clone when the
\* hook answers with a text
try_reduce_ex_register(st, obj, m, d) ==
    IF ScriptOf(st.heap[obj]).rex = "noattr" THEN Err(st, "No __reduce_ex__")
    ELSE Bind(CallReduce(st, obj, m, "reduce_ex"), LAMBDA reduced :
             CASE reduced.how = "typeerror" -> Ok(reduced.st, obj)
               [] reduced.how = "raise" -> Err(reduced.st, "__reduce_ex__ failed")
               [] reduced.how = "str" ->
                     Ok(Memo_insert(reduced.st, m, obj, obj, hash_pointer(AddrOf(obj))), obj)
               [] OTHER -> reconstruct_from_reduce(reduced.st, obj, reduced, m, d))

try_reduce_ex(st, obj, m, d) ==
    IF ScriptOf(st.heap[obj]).rex = "noattr" THEN Err(st, "No __reduce_ex__")
    ELSE Bind(CallReduce(st, obj, m, "reduce_ex"), LAMBDA reduced :
             CASE reduced.how = "typeerror" -> Ok(reduced.st, obj)
               [] reduced.how = "raise" -> Err(reduced.st, "__reduce_ex__ failed")
               [] reduced.how = "str" -> Ok(reduced.st, obj)
               [] OTHER -> reconstruct_from_reduce(reduced.st, obj, reduced, m, d))

try_reduce(st, obj, m, d) ==
    IF ScriptOf(st.heap[obj]).red = "noattr" THEN Err(st, "No __reduce__")
    ELSE Bind(CallReduce(st, obj, m, "reduce"), LAMBDA reduced :
             CASE reduced.how \in {"typeerror", "raise"} -> Err(reduced.st, "__reduce__ failed")
               [] reduced.how = "str" -> Ok(reduced.st, obj)
               [] OTHER -> reconstruct_from_reduce(reduced.st, obj, reduced, m, d))

deepcopy_via_reduce(st, obj, m, d) ==
    Bind(try_reduce_ex(st, obj, m, d), LAMBDA reduce_ex_result :
        IF reduce_ex_result.ok THEN reduce_ex_result
        ELSE try_reduce(reduce_ex_result.st, obj, m, d))

\* ------------------------------------------------------------------------
\* rust/dispatch.rs
\* ------------------------------------------------------------------------
\* A hook of kind "deep" clones each constructor argument through the public
\* entry point with the memo it was handed.
DeepHookArgs(st, args, memo_arg, d, i, acc) ==
    IF i > Len(args) THEN [st |-> st, ok |-> TRUE, v |-> acc, e |-> ""]
    ELSE LET r == deepcopy_impl(st, args[i], memo_arg, d)
         IN
             IF ~r.ok THEN r
             ELSE DeepHookArgs(r.st, args, memo_arg, d, i + 1, Append(acc, r.v))

\* what the pair checked out for m holds: live entries and retained objects
PooledContents(st, m) ==
    IF m.user THEN [entries |-> {}, kept |-> <<>>]
    ELSE [entries |-> LiveEntries(st.tls[m.slot].table),
          kept |-> st.tls[m.slot].keepalive.items]

\* PyObject_CallOneArg(method, memo_arg): the body of the user's hook
\* A hook of kind "mutate" has the side effect of changing the set it was
\* given: args = <<the set, a member it discards, a member it adds>>.
MutateSet(h, args) ==
    PySet_Add([h EXCEPT ![args[1]].items = SelectSeq(@, LAMBDA y : y # args[2])],
              args[1], args[3])

CallDeepcopyHook(st, obj, memo_arg, m, d) ==
    LET o == st.heap[obj]
    IN
    Bind(ScriptOf(o).dc, LAMBDA dc :
    LET s1 == Log(st, "deepcopy", m, obj, memo_arg)
        fresh(s, args) == Ok(Alloc(s, Inst(o.cls, o.attrs, args)), NewId(s))
    IN
        CASE dc = "fresh" -> fresh(s1, o.args)
          [] dc = "self" -> Ok(s1, obj)
          [] dc = "mutate" -> fresh([s1 EXCEPT !.heap = MutateSet(@, o.args)], o.args)
          [] dc = "deep" ->
                IF d = 0 THEN Err(Log(s1, "overflow", m, obj, NULL), "RecursionError")
                ELSE Bind(DeepHookArgs(s1, o.args, memo_arg, d - 1, 1, <<>>), LAMBDA r :
                         IF ~r.ok THEN Err(r.st, r.e) ELSE fresh(r.st, r.v))
          [] dc = "nested" ->
                IF d = 0 THEN Err(Log(s1, "overflow", m, obj, NULL), "RecursionError")
                ELSE IF o.args = <<>> THEN fresh(s1, o.args)
                ELSE LET s2 == Log(s1, "nest_enter", m, o.args[1], PooledContents(s1, m))
                         r0 == deepcopy_impl(s2, o.args[1], NULL, d - 1)
                     IN
                     Bind([r0 EXCEPT !.st = Log(@, "nest_exit", m, o.args[1],
                                                    PooledContents(@, m))], LAMBDA r :
                         IF ~r.ok THEN Err(r.st, r.e) ELSE fresh(r.st, o.args))
          [] OTHER -> Err(s1, "TypeError"))

\* call_custom_deepcopy that does not save the hook's result to the memo
call_custom_deepcopy_unsaved(st, obj, m, d) ==
    LET memo_arg == NewId(st)
        s1 == Alloc(st, Dict_(<<>>, <<>>))
        result == CallDeepcopyHook(s1, obj, memo_arg, m, d)
    IN
        IF ~result.ok THEN Err(result.st, "__deepcopy__ call failed")
        ELSE Ok(result.st, result.v)

\* memo.table.insert / memo.keepalive.append are written against the pooled
\* pair; under a user-provided memo they are the trait's insert / keepalive
call_custom_deepcopy(st, obj, m, d) ==
    LET memo_arg == NewId(st)
        s1 == Alloc(st, Dict_(<<>>, <<>>))
    IN
    Bind(CallDeepcopyHook(s1, obj, memo_arg, m, d), LAMBDA result :
        IF ~result.ok THEN Err(result.st, "__deepcopy__ call failed")
        ELSE LET s2 == Memo_insert(result.st, m, obj, result.v, hash_pointer(AddrOf(obj)))
                 s3 == Memo_keepalive(s2, m, result.v)
             IN
                 Ok(s3, result.v))

dispatch_deepcopy(st, obj, type_class, hash, m, d) ==
    CASE type_class = "ImmutableLiteral" -> Ok(st, obj)
      [] type_class = "Dict" -> deepcopy_dict(st, obj, m, d)
      [] type_class = "List" -> deepcopy_list(st, obj, m, d)
      [] type_class = "Tuple" -> deepcopy_tuple(st, obj, hash, m, d)
      [] type_class = "Set" -> deepcopy_set(st, obj, m, d)
      [] type_class = "FrozenSet" -> deepcopy_frozenset(st, obj, m, d)
      [] type_class = "ByteArray" -> deepcopy_bytearray(st, obj, m)
      [] type_class = "CustomDeepCopy" -> call_custom_deepcopy(st, obj, m, d)
      [] OTHER -> IF has_deepcopy(st.heap[obj])
                  THEN call_custom_deepcopy(st, obj, m, d)
                  ELSE deepcopy_via_reduce(st, obj, m, d)

\* ------------------------------------------------------------------------
\* rust/deepcopy_impl.rs
\* ------------------------------------------------------------------------
\* what a call handed back for obj, for the record
Returned(r, m, obj) == IF r.ok THEN [r EXCEPT !.st = Log(@, "ret", m, obj, r.v)] ELSE r

deepcopy_internal(st, obj, m, d) ==
    IF is_immutable_literal(st.heap[obj]) THEN Returned(Ok(st, obj), m, obj)
    ELSE Bind(hash_pointer(AddrOf(obj)), LAMBDA hash :
         Bind(Memo_lookup(st, m, obj, hash), LAMBDA c :
             IF c.v # NULL THEN Returned(Ok(Py_NewRef_cached(c.st), c.v), m, obj)
             ELSE Returned(dispatch_deepcopy(c.st, obj, classify_type(c.st.heap[obj]),
                                             hash, m, d), m, obj)))

\* the native stack is finite: d frames are left
deepcopy_recursive(st, obj, m, d) ==
    IF is_immutable_literal(st.heap[obj]) THEN Returned(Ok(st, obj), m, obj)
    ELSE IF d = 0 THEN Err(Log(st, "overflow", m, obj, NULL), "stack overflow")
    ELSE Bind(hash_pointer(AddrOf(obj)), LAMBDA hash :
         Bind(Memo_lookup(st, m, obj, hash), LAMBDA c :
             IF c.v # NULL THEN Returned(Ok(Py_NewRef_cached(c.st), c.v), m, obj)
             ELSE Returned(dispatch_deepcopy(c.st, obj, classify_type(c.st.heap[obj]),
                                             hash, m, d - 1), m, obj)))

\* the pool of the execution context: one pair, checked out and returned
get_thread_local_memo(st, op) ==
    LET pair == IF st.pool.present THEN st.pool.pair
                ELSE [table |-> MemoTable_new, keepalive |-> KeepAlive_new]
    IN
        [st |-> [st EXCEPT !.tls = Append(@, pair), !.pool.present = FALSE],
         m  |-> [user |-> FALSE, dict |-> NULL, keepalive_list |-> NULL,
                 slot |-> Len(st.tls) + 1, op |-> op]]

return_thread_local_memo(st, m) ==
    LET pair == st.tls[m.slot]
        t1 == MemoTable_shrink_if_large(MemoTable_clear(pair.table))
        k1 == KeepAlive_shrink_if_large(KeepAlive_clear(pair.keepalive))
    IN
        [st EXCEPT !.tls = SubSeq(@, 1, m.slot - 1),
                   !.pool = [present |-> TRUE, pair |-> [table |-> t1, keepalive |-> k1]]]

\* the Err(e) arms of deepcopy_impl: which exception the caller sees
MapError(e) ==
    IF e = "PYTHON_EXCEPTION:AttributeError" THEN "copy.Error"
    ELSE IF e = "PYTHON_EXCEPTION:TypeError" THEN "TypeError"
    ELSE IF e = "pickle protocol expects at most 5-tuple" THEN "TypeError"
    ELSE "RuntimeError"

deepcopy_impl(st, obj, memo, d) ==
    LET op == st.nop + 1
        s0 == [st EXCEPT !.nop = op]
        enter(s, m) == Log(s, "enter", m, obj, memo)
        exit(r, m) ==
            [st |-> Log(r.st, "exit", m, r.v, IF r.ok THEN 1 ELSE 0),
             ok |-> r.ok, v |-> r.v, e |-> IF r.ok THEN "" ELSE MapError(r.e)]
    IN
        IF memo # NULL
        THEN Bind(UserProvidedMemo_new(s0, memo, op), LAMBDA u :
             LET r == deepcopy_internal(enter(u.st, u.m), obj, u.m, d)
             IN
                 exit(r, u.m))
        ELSE LET g == get_thread_local_memo(s0, op)
                 r == deepcopy_internal(enter(g.st, g.m), obj, g.m, d)
             IN
             Bind(exit(r, g.m), LAMBDA x :
                 [x EXCEPT !.st = return_thread_local_memo(@, g.m)])

\* ------------------------------------------------------------------------
\* The caller's object graph.  Names lists the objects in allocation order;
\* R(name) is the identity of the named object.
\* ------------------------------------------------------------------------
Names ==
    << "none", "i1", "f1", "sa", "sb", "by", "tr", "T_Plain", "T_Hook",
       "l_inner", "l_atoms", "selflist", "d_inner", "d_plain",
       "t_atoms", "t_empty", "t_nested", "t_mut", "t_cyc", "l_cyc",
       "s_inner", "fz", "ba", "fz_cyc", "o_cyc", "d_cyc",
       "d_attr", "o_plain", "o_args2", "o_items5", "o_six", "o_sixboth",
       "o_basic6", "o_str", "o_one", "o_nontuple", "o_unpick", "o_rexraise",
       "o_noreduce", "o_ctorbad", "o_ctorte", "o_setstate", "o_setstatebad",
       "o_hook", "o_hookself", "o_hookraise", "o_hookdeep", "o_hooknested",
       "sh_list", "sh_dict", "sh_tuple", "sh_set", "sh_fz", "sh_ba",
       "sh_plain", "sh_args2", "sh_hook", "sh_hookself", "sh_hookdeep",
       "sh_items5", "sh_setstate", "sh_type", "sh_tatoms",
       "l_type", "l_six", "l_hooknested", "d_hooknested",
       "l_other", "k_pre", "m_empty", "m_pre", "k_self", "m_self",
       "o_nest", "d_nest", "o_argcyc",
       "o_itemsbad", "d_slot", "t_state", "o_slots", "s_mut", "o_mut",
       "o_named" >>

R(name) == CHOOSE i \in DOMAIN Names : Names[i] = name

Shared(x) == Dict_(<<R("sa"), R("sb")>>, <<R(x), R(x)>>)

Object(n) ==
    CASE n = "none" -> Scalar("none", 0)
      [] n = "i1" -> Scalar("int", 1)
      [] n = "f1" -> Scalar("float", 1)
      [] n = "sa" -> Scalar("str", 1)
      [] n = "sb" -> Scalar("str", 2)
      [] n = "by" -> Scalar("bytes", 1)
      [] n = "tr" -> Scalar("bool", 1)
      [] n = "T_Plain" -> TypeObj("Plain")
      [] n = "T_Hook" -> TypeObj("Hook")
      [] n = "l_inner" -> Seq_("list", <<R("i1")>>)
      [] n = "l_atoms" -> Seq_("list", <<R("i1"), R("sa"), R("none")>>)
      [] n = "selflist" -> Seq_("list", <<R("selflist")>>)
      [] n = "d_inner" -> Dict_(<<R("sa")>>, <<R("i1")>>)
      [] n = "d_plain" -> Dict_(<<R("sa"), R("t_mut"), R("sb")>>,
                                <<R("l_inner"), R("i1"), R("d_inner")>>)
      [] n = "t_atoms" -> Seq_("tuple", <<R("i1"), R("sa")>>)
      [] n = "t_empty" -> Seq_("tuple", <<>>)
      [] n = "t_nested" -> Seq_("tuple", <<R("t_atoms"), R("none")>>)
      [] n = "t_mut" -> Seq_("tuple", <<R("o_plain"), R("i1")>>)
      [] n = "t_cyc" -> Seq_("tuple", <<R("l_cyc")>>)
      [] n = "l_cyc" -> Seq_("list", <<R("t_cyc")>>)
      [] n = "s_inner" -> Seq_("set", <<R("i1"), R("t_mut")>>)
      [] n = "fz" -> Seq_("frozenset", <<R("i1"), R("sa")>>)
      [] n = "ba" -> Scalar("bytearray", 7)
      [] n = "fz_cyc" -> Seq_("frozenset", <<R("o_cyc")>>)
      [] n = "o_cyc" -> Inst("Plain", R("d_cyc"), <<>>)
      [] n = "d_cyc" -> Dict_(<<R("sa")>>, <<R("fz_cyc")>>)
      [] n = "d_attr" -> Dict_(<<R("sa")>>, <<R("l_inner")>>)
      [] n = "o_plain" -> Inst("Plain", R("d_attr"), <<R("T_Plain")>>)
      [] n = "o_args2" -> Inst("Args2", NULL, <<R("l_inner")>>)
      [] n = "o_items5" ->
            [Inst("Items5", NULL, <<>>) EXCEPT !.items = <<R("l_inner")>>,
                                              !.keys = <<R("sa")>>,
                                              !.vals = <<R("l_inner")>>]
      [] n = "o_six" -> Inst("Six", NULL, <<R("i1")>>)
      [] n = "o_sixboth" -> Inst("SixBoth", NULL, <<R("i1")>>)
      [] n = "o_basic6" -> Inst("Basic6", NULL, <<R("i1")>>)
      [] n = "o_str" -> Inst("Str", NULL, <<>>)
      [] n = "o_one" -> Inst("One", NULL, <<>>)
      [] n = "o_nontuple" -> Inst("NonTuple", NULL, <<>>)
      [] n = "o_unpick" -> Inst("Unpick", NULL, <<>>)
      [] n = "o_rexraise" -> Inst("RexRaise", R("d_attr"), <<>>)
      [] n = "o_noreduce" -> Inst("NoReduce", NULL, <<>>)
      [] n = "o_ctorbad" -> Inst("CtorBad", NULL, <<R("l_inner")>>)
      [] n = "o_ctorte" -> Inst("CtorTE", NULL, <<R("l_inner")>>)
      [] n = "o_setstate" -> Inst("SetState", R("d_attr"), <<>>)
      [] n = "o_setstatebad" -> Inst("SetStateBad", R("d_attr"), <<>>)
      [] n = "o_hook" -> Inst("Hook", R("d_attr"), <<>>)
      [] n = "o_hookself" -> Inst("HookSelf", R("d_attr"), <<>>)
      [] n = "o_hookraise" -> Inst("HookRaise", NULL, <<>>)
      [] n = "o_hookdeep" -> Inst("HookDeep", NULL, <<R("l_inner"), R("l_inner")>>)
      [] n = "o_hooknested" -> Inst("HookNested", NULL, <<R("l_atoms")>>)
      [] n = "sh_list" -> Shared("l_inner")
      [] n = "sh_dict" -> Shared("d_inner")
      [] n = "sh_tuple" -> Shared("t_mut")
      [] n = "sh_set" -> Shared("s_inner")
      [] n = "sh_fz" -> Shared("fz_cyc")
      [] n = "sh_ba" -> Shared("ba")
      [] n = "sh_plain" -> Shared("o_plain")
      [] n = "sh_args2" -> Shared("o_args2")
      [] n = "sh_hook" -> Shared("o_hook")
      [] n = "sh_hookself" -> Shared("o_hookself")
      [] n = "sh_hookdeep" -> Shared("o_hookdeep")
      [] n = "sh_items5" -> Shared("o_items5")
      [] n = "sh_setstate" -> Shared("o_setstate")
      [] n = "sh_type" -> Shared("T_Plain")
      [] n = "sh_tatoms" -> Shared("t_atoms")
      [] n = "l_type" -> Seq_("list", <<R("T_Hook"), R("i1")>>)
      [] n = "l_six" -> Seq_("list", <<R("o_six")>>)
      [] n = "l_hooknested" -> Seq_("list", <<R("l_inner"), R("o_hooknested")>>)
      [] n = "d_hooknested" -> Dict_(<<R("o_hooknested")>>, <<R("l_inner")>>)
      [] n = "l_other" -> Seq_("list", <<R("sb")>>)
      [] n = "k_pre" -> Scalar("int", AddrOf(R("l_inner")))
      [] n = "m_empty" -> Dict_(<<>>, <<>>)
      [] n = "m_pre" -> Dict_(<<R("k_pre")>>, <<R("l_other")>>)
      [] n = "k_self" -> Scalar("int", AddrOf(R("m_self")))
      [] n = "m_self" -> Dict_(<<R("k_self")>>, <<R("l_other")>>)
      [] n = "o_nest" -> Inst("HookNested", NULL, <<R("m_empty")>>)
      [] n = "d_nest" -> Dict_(<<R("o_nest")>>, <<R("m_empty")>>)
      [] n = "o_argcyc" -> Inst("Args2", NULL, <<R("o_argcyc")>>)
      [] n = "o_itemsbad" ->
            [Inst("ItemsBad", R("d_attr"), <<>>) EXCEPT
                !.items = <<R("o_noreduce"), R("l_inner")>>,
                !.keys = <<R("l_inner"), R("sa"), R("sb")>>,
                !.vals = <<R("i1"), R("o_noreduce"), R("l_inner")>>]
      [] n = "d_slot" -> Dict_(<<R("sb")>>, <<R("l_inner")>>)
      [] n = "t_state" -> Seq_("tuple", <<R("d_attr"), R("d_slot")>>)
      [] n = "o_slots" -> Inst("Plain", R("t_state"), <<>>)
      [] n = "s_mut" -> Seq_("set", <<R("o_mut"), R("i1")>>)
      [] n = "o_mut" -> Inst("HookMutate", NULL, <<R("s_mut"), R("i1"), R("sa")>>)
      [] n = "o_named" -> Inst("dict", R("d_attr"), <<>>)

Universe == [i \in DOMAIN Names |-> Object(Names[i])]

\* what the caller may pass as memo
Memos == {NULL, R("m_empty"), R("m_pre"), R("m_self")}

\* what the caller may pass as root: every object of the graph
Roots == DOMAIN Names

\* ------------------------------------------------------------------------
\* memo.rs : the MemoTable of the ThreadMemo.  The slot array is absent
\* (a null pointer) exactly while size = 0.
\* ------------------------------------------------------------------------
INITIAL_SIZE == 8
LOAD_FACTOR_NUM == 7
LOAD_FACTOR_DEN == 10
RETAIN_MAX_SLOTS == 131072
RETAIN_SHRINK_TO == 8192

\* the constructor that allocates the initial slot array at once
ts_MemoTable_new_allocated ==
    [size |-> INITIAL_SIZE, used |-> 0, filled |-> 0, slots |-> EmptySlots, refs |-> NoRefs]

ts_MemoTable_new ==
    [size |-> 0, used |-> 0, filled |-> 0, slots |-> EmptySlots, refs |-> NoRefs]

RECURSIVE ts_MigrateProbe(_, _, _, _)
ts_MigrateProbe(slots, e, idx, new_size) ==
    IF idx \notin DOMAIN slots THEN (idx :> e) @@ slots
    ELSE ts_MigrateProbe(slots, e, (idx + 1) % new_size, new_size)

RECURSIVE ts_Migrate(_, _, _, _)
ts_Migrate(slots, old, todo, new_size) ==
    IF todo = {} THEN slots
    ELSE LET i == CHOOSE j \in todo : \A k \in todo : j <= k
             e == old[i]
         IN
             IF e.key = TOMBSTONE THEN ts_Migrate(slots, old, todo \ {i}, new_size)
             ELSE ts_Migrate(
                    ts_MigrateProbe(slots, e, HashIndex(hash_pointer(e.key), new_size),
                                    new_size),
                    old, todo \ {i}, new_size)

\* the resize that forgets the tombstone-free count
ts_MemoTable_resize_uncounted(t, new_size) ==
    [size |-> new_size, used |-> t.used, filled |-> 0,
     slots |-> ts_Migrate(EmptySlots, t.slots, DOMAIN t.slots, new_size),
     refs |-> t.refs]

\* the resize that gives the references back with the old slot array
ts_MemoTable_resize_released(t, new_size) ==
    [size |-> new_size, used |-> t.used, filled |-> t.used,
     slots |-> ts_Migrate(EmptySlots, t.slots, DOMAIN t.slots, new_size),
     refs |-> ReleaseLive(t.refs, t.slots)]

ts_MemoTable_resize(t, new_size) ==
    [size |-> new_size, used |-> t.used, filled |-> t.used,
     slots |-> ts_Migrate(EmptySlots, t.slots, DOMAIN t.slots, new_size),
     refs |-> t.refs]

ts_MemoTable_ensure_allocated(t) ==
    IF t.size # 0 THEN t ELSE ts_MemoTable_resize(t, INITIAL_SIZE)

RECURSIVE ts_LookupProbe(_, _, _)
ts_LookupProbe(t, key, idx) ==
    IF idx \notin DOMAIN t.slots THEN NULL
    ELSE IF t.slots[idx].key # TOMBSTONE /\ t.slots[idx].key = key
    THEN t.slots[idx].value
    ELSE ts_LookupProbe(t, key, (idx + 1) % t.size)

ts_MemoTable_lookup_with_hash(t, key, hash) ==
    IF t.size = 0 THEN NULL ELSE ts_LookupProbe(t, key, HashIndex(hash, t.size))

\* Option::None for first_tomb
NoTomb == NULL - 1

RECURSIVE ts_InsertProbe(_, _, _, _, _)
\* the update that keeps the reference to the value it replaces
ts_InsertProbe_keep(t, key, value, idx, first_tomb) ==
    IF idx \notin DOMAIN t.slots
    THEN LET insert_idx == IF first_tomb = NoTomb THEN idx ELSE first_tomb
         IN
             [t EXCEPT !.slots = (insert_idx :> [key |-> key, value |-> value]) @@ @,
                       !.used = @ + 1, !.filled = @ + 1,
                       !.refs = Py_IncRef(@, value)]
    ELSE IF t.slots[idx].key = TOMBSTONE
    THEN ts_InsertProbe(t, key, value, (idx + 1) % t.size,
                        IF first_tomb = NoTomb THEN idx ELSE first_tomb)
    ELSE IF t.slots[idx].key = key
    THEN [t EXCEPT !.slots[idx].value = value, !.refs = Py_IncRef(@, value)]
    ELSE ts_InsertProbe(t, key, value, (idx + 1) % t.size, first_tomb)

ts_InsertProbe(t, key, value, idx, first_tomb) ==
    IF idx \notin DOMAIN t.slots
    THEN LET insert_idx == IF first_tomb = NoTomb THEN idx ELSE first_tomb
         IN
             [t EXCEPT !.slots = (insert_idx :> [key |-> key, value |-> value]) @@ @,
                       !.used = @ + 1, !.filled = @ + 1,
                       !.refs = Py_IncRef(@, value)]
    ELSE IF t.slots[idx].key = TOMBSTONE
    THEN ts_InsertProbe(t, key, value, (idx + 1) % t.size,
                        IF first_tomb = NoTomb THEN idx ELSE first_tomb)
    ELSE IF t.slots[idx].key = key
    THEN [t EXCEPT !.slots[idx].value = value,
                   !.refs = Py_DecRef(Py_IncRef(@, value), t.slots[idx].value)]
    ELSE ts_InsertProbe(t, key, value, (idx + 1) % t.size, first_tomb)

\* the insert that grows the table only when no slot is left
ts_MemoTable_insert_with_hash_full(t, key, value, hash) ==
    Bind(ts_MemoTable_ensure_allocated(t), LAMBDA t1 :
    Bind(IF t1.filled >= t1.size - 1
              THEN ts_MemoTable_resize(t1, t1.size * 2)
              ELSE t1, LAMBDA t2 :
        ts_InsertProbe(t2, key, value, HashIndex(hash, t2.size), NoTomb)))

ts_MemoTable_insert_with_hash(t, key, value, hash) ==
    Bind(ts_MemoTable_ensure_allocated(t), LAMBDA t1 :
    Bind(IF t1.filled * LOAD_FACTOR_DEN >= t1.size * LOAD_FACTOR_NUM
              THEN ts_MemoTable_resize(t1, IF t1.size = 0 THEN INITIAL_SIZE
                                           ELSE t1.size * 2)
              ELSE t1, LAMBDA t2 :
        ts_InsertProbe(t2, key, value, HashIndex(hash, t2.size), NoTomb)))

\* the clear that drops the entries without giving their references back
ts_MemoTable_clear_leak(t) ==
    IF t.size = 0 THEN t
    ELSE [t EXCEPT !.slots = EmptySlots, !.used = 0, !.filled = 0]

ts_MemoTable_clear(t) ==
    IF t.size = 0 THEN t
    ELSE [t EXCEPT !.slots = EmptySlots, !.used = 0, !.filled = 0,
                   !.refs = ReleaseLive(@, t.slots)]

\* Drop for MemoTable: clear(), then free(slots)
ts_MemoTable_drop(t) == [ts_MemoTable_clear(t) EXCEPT !.size = 0]

\* no retention limit
ts_MemoTable_shrink_if_large_never(t) == t

ts_MemoTable_shrink_if_large(t) ==
    IF t.size > RETAIN_MAX_SLOTS THEN ts_MemoTable_resize(t, RETAIN_SHRINK_TO) ELSE t

\* ------------------------------------------------------------------------
\* keepalive.rs : KeepVector.  The buffer is absent exactly while
\* capacity = 0.
\* ------------------------------------------------------------------------
RETAIN_MAX == 8192
RETAIN_TARGET == 1024
INITIAL_CAPACITY == 8

KeepVector_new == [items |-> <<>>, capacity |-> 0, refs |-> NoRefs]

RECURSIVE DoubleUntil(_, _)
DoubleUntil(new_cap, min_capacity) ==
    IF new_cap < min_capacity THEN DoubleUntil(new_cap * 2, min_capacity) ELSE new_cap

KeepVector_grow(k, min_capacity) ==
    [k EXCEPT !.capacity =
        DoubleUntil(IF k.capacity = 0 THEN INITIAL_CAPACITY ELSE k.capacity,
                    min_capacity)]

\* the append that stores the pointer without taking a reference
KeepVector_append_borrowed(k, obj) ==
    [k EXCEPT !.items = Append(@, obj),
              !.capacity = IF Len(k.items) >= k.capacity
                           THEN KeepVector_grow(k, Len(k.items) + 1).capacity ELSE @]

KeepVector_append(k, obj) ==
    LET k1 == IF Len(k.items) >= k.capacity
              THEN KeepVector_grow(k, Len(k.items) + 1) ELSE k
    IN
        [k1 EXCEPT !.items = Append(@, obj), !.refs = Py_IncRef(@, obj)]

KeepVector_clear(k) == [k EXCEPT !.items = <<>>, !.refs = ReleaseItems(@, k.items)]

KeepVector_shrink_if_large(k) ==
    IF k.capacity = 0 \/ k.capacity <= RETAIN_MAX THEN k
    ELSE [k EXCEPT !.capacity = IF Len(k.items) > RETAIN_TARGET
                                THEN Len(k.items) ELSE RETAIN_TARGET]

\* memo.rs : ThreadMemo
ThreadMemo_new ==
    [table |-> ts_MemoTable_new, keepalive |-> KeepVector_new, current_proxy |-> NULL]

ThreadMemo_reset(tm) ==
    [table |-> ts_MemoTable_shrink_if_large(ts_MemoTable_clear(tm.table)),
     keepalive |-> KeepVector_shrink_if_large(KeepVector_clear(tm.keepalive)),
     current_proxy |-> NULL]

ThreadMemo_initialize(tm) == [tm EXCEPT !.table = ts_MemoTable_ensure_allocated(@)]

\* ------------------------------------------------------------------------
\* memo.rs, keepalive.rs : the same operations with the allocator as an
\* input.  avail is the number of requests libc::calloc / libc::realloc still
\* serves; a request made at avail = 0 returns the null pointer.  A result
\* is [ok, t, avail]: Ok(()) or Err(()), the structure afterwards and what
\* the allocator still serves.
\* ------------------------------------------------------------------------
Served(t, avail) == [ok |-> TRUE, t |-> t, avail |-> avail]
Refused(t, avail) == [ok |-> FALSE, t |-> t, avail |-> avail]

\* the resize that gives up the old slot array before it asks for the new one
ts_try_resize_free_first(t, new_size, avail) ==
    IF avail = 0 THEN Refused([t EXCEPT !.size = 0, !.slots = EmptySlots], avail)
    ELSE Served(ts_MemoTable_resize(t, new_size), avail - 1)

ts_try_resize(t, new_size, avail) ==
    IF avail = 0 THEN Refused(t, avail)
    ELSE Served(ts_MemoTable_resize(t, new_size), avail - 1)

ts_try_ensure_allocated(t, avail) ==
    IF t.size # 0 THEN Served(t, avail) ELSE ts_try_resize(t, INITIAL_SIZE, avail)

ts_try_insert_with_hash(t, key, value, hash, avail) ==
    Bind(ts_try_ensure_allocated(t, avail), LAMBDA r1 :
        IF ~r1.ok THEN r1
        ELSE Bind(IF r1.t.filled * LOAD_FACTOR_DEN >= r1.t.size * LOAD_FACTOR_NUM
                  THEN ts_try_resize(r1.t, IF r1.t.size = 0 THEN INITIAL_SIZE
                                           ELSE r1.t.size * 2, r1.avail)
                  ELSE r1, LAMBDA r2 :
                 IF ~r2.ok THEN r2
                 ELSE Served(ts_InsertProbe(r2.t, key, value,
                                            HashIndex(hash, r2.t.size), NoTomb),
                             r2.avail)))

KeepVector_try_grow(k, min_capacity, avail) ==
    IF avail = 0 THEN Refused(k, avail)
    ELSE Served(KeepVector_grow(k, min_capacity), avail - 1)

KeepVector_try_append(k, obj, avail) ==
    Bind(IF Len(k.items) >= k.capacity
         THEN KeepVector_try_grow(k, Len(k.items) + 1, avail)
         ELSE Served(k, avail), LAMBDA r :
        IF ~r.ok THEN r
        ELSE Served([r.t EXCEPT !.items = Append(@, obj), !.refs = Py_IncRef(@, obj)],
                    r.avail))

ThreadMemo_try_initialize(tm, avail) ==
    Bind(ts_try_ensure_allocated(tm.table, avail), LAMBDA r :
        [r EXCEPT !.t = [tm EXCEPT !.table = r.t]])

\* ------------------------------------------------------------------------
\* proxy.rs : THREAD_MEMO, the one ThreadMemo of the thread.  st.tm is
\* [present |-> FALSE] while the cell holds None.
\* ------------------------------------------------------------------------
get_thread_memo(st) ==
    IF st.tm.present THEN st
    ELSE [st EXCEPT !.tm = [present |-> TRUE, memo |-> ThreadMemo_new]]

reset_thread_memo(st) ==
    IF st.tm.present THEN [st EXCEPT !.tm.memo = ThreadMemo_reset(@)] ELSE st

\* proxy.rs MemoProxy::__setitem__: the proxy holds no table of its own, it
\* writes to whatever THREAD_MEMO holds when it is called
MemoProxy_setitem(st, key, value) ==
    LET s1 == get_thread_memo(st)
    IN
        [s1 EXCEPT !.tm.memo.table =
            ts_MemoTable_insert_with_hash(@, key, value, hash_pointer(key))]

\* what the thread's memo holds: its live entries and what it retains
ThreadMemoContents(tm) ==
    IF tm.present
    THEN [entries |-> LiveEntries(tm.memo.table), kept |-> tm.memo.keepalive.items]
    ELSE [entries |-> {}, kept |-> <<>>]

\* ------------------------------------------------------------------------
\* deepcopy.rs, reconstructor.rs : the walk over the thread's ThreadMemo.
\* A call context c is [user_memo, use_thread_memo, op, ub]; ub is the
\* outcome the build gives to a read through a pointer of the wrong type.
\* ------------------------------------------------------------------------
RECURSIVE dispatch_copy(_, _, _, _)
RECURSIVE copium_deepcopy(_, _, _, _, _)

Copied(st, tag, v) == [st |-> st, ok |-> TRUE, v |-> v, e |-> "", tag |-> tag]
CopyError(st, e) == [st |-> st, ok |-> FALSE, v |-> NULL, e |-> e, tag |-> "Error"]

is_literal_immutable(o) == o.kind \in {"none", "int", "str", "bool", "float", "bytes"}
is_class(o) == o.kind = "type"
is_atomic_immutable(o) == is_literal_immutable(o) \/ is_class(o)

\* PyDict_Size: -1 for anything that is not a dict
ts_PyDict_Size(o) == IF o.kind = "dict" THEN Len(o.keys) ELSE 0 - 1

\* "Save to memo before recursing" of copy_dict / copy_list, and the save
\* of copy_tuple
SaveToMemo(st, obj, new, c) ==
    IF c.use_thread_memo
    THEN LET s1 == get_thread_memo(st)
         IN
         Bind([s1 EXCEPT !.tm.memo = ThreadMemo_initialize(@)], LAMBDA s2 :
         Bind([s2 EXCEPT !.tm.memo.table =
                        ts_MemoTable_insert_with_hash(@, AddrOf(obj), new,
                                                      hash_pointer(AddrOf(obj)))], LAMBDA s3 :
         LET s4 == [s3 EXCEPT !.tm.memo.keepalive = KeepVector_append(@, new)]
         IN
             Log(Log(s4, "insert", c, obj, new), "keepalive", c, new, NULL)))
    ELSE IF c.user_memo # NULL
    THEN IF st.heap[c.user_memo].kind = "dict"
         THEN Log(PyDict_SetItemInt(st, c.user_memo, AddrOf(obj), new),
                  "insert", c, obj, new)
         ELSE st
    ELSE st

RECURSIVE ts_DictLoop(_, _, _, _, _, _)
ts_DictLoop(st, obj, new_dict, c, d, i) ==
    IF i > Len(st.heap[obj].keys) THEN Copied(st, "Mutable", new_dict)
    ELSE LET ck == dispatch_copy(st, st.heap[obj].keys[i], c, d)
         IN
             IF ~ck.ok THEN ck
             ELSE LET cv == dispatch_copy(ck.st, ck.st.heap[obj].vals[i], c, d)
                  IN
                      IF ~cv.ok THEN cv
                      ELSE IF ~Hashable(cv.st.heap, ck.v, 3) THEN CopyError(cv.st, "TypeError")
                      ELSE ts_DictLoop(
                             [cv.st EXCEPT !.heap = PyDict_SetItem(@, new_dict, ck.v, cv.v)],
                             obj, new_dict, c, d, i + 1)

copy_dict(st, obj, c, d) ==
    LET new_dict == NewId(st)
        s1 == Log(Alloc(st, Dict_(<<>>, <<>>)), "build", c, obj, new_dict)
    IN
        ts_DictLoop(SaveToMemo(s1, obj, new_dict, c), obj, new_dict, c, d, 1)

\* copy_dict with the allocator as an input: every Err of the save gives the
\* new dict back and returns CopyResult::Error with no exception pending,
\* which deepcopy_impl turns into the error PyErr::fetch makes up
try_copy_dict(st, obj, c, d, avail) ==
    LET new_dict == NewId(st)
        s1 == get_thread_memo(
                  Log(Alloc(st, Dict_(<<>>, <<>>)), "build", c, obj, new_dict))
    IN
        IF ~c.use_thread_memo THEN copy_dict(st, obj, c, d)
        ELSE
        Bind(ThreadMemo_try_initialize(s1.tm.memo, avail), LAMBDA r1 :
            IF ~r1.ok THEN CopyError([s1 EXCEPT !.tm.memo = r1.t], "SystemError")
            ELSE
        Bind(ts_try_insert_with_hash(r1.t.table, AddrOf(obj), new_dict,
                                     hash_pointer(AddrOf(obj)), r1.avail), LAMBDA r2 :
            IF ~r2.ok
            THEN CopyError([s1 EXCEPT !.tm.memo = [r1.t EXCEPT !.table = r2.t]],
                           "SystemError")
            ELSE
        Bind(KeepVector_try_append(r1.t.keepalive, new_dict, r2.avail), LAMBDA r3 :
            LET s4 == [s1 EXCEPT !.tm.memo = [r1.t EXCEPT !.table = r2.t,
                                                          !.keepalive = r3.t]]
            IN
                IF ~r3.ok
                THEN CopyError(Log(s4, "insert", c, obj, new_dict), "SystemError")
                ELSE ts_DictLoop(
                         Log(Log(s4, "insert", c, obj, new_dict),
                             "keepalive", c, new_dict, NULL),
                         obj, new_dict, c, d, 1))))

RECURSIVE ts_ListLoop(_, _, _, _, _, _, _)
ts_ListLoop(st, obj, new_list, size, c, d, i) ==
    IF i > size THEN Copied(st, "Mutable", new_list)
    ELSE LET r == dispatch_copy(st, st.heap[obj].items[i], c, d)
         IN
             IF ~r.ok THEN r
             ELSE ts_ListLoop([r.st EXCEPT !.heap[new_list].items[i] = r.v],
                              obj, new_list, size, c, d, i + 1)

\* PyList_New(size) fails for the negative size PyDict_Size gives for a list
copy_list(st, obj, c, d) ==
    LET size == ts_PyDict_Size(st.heap[obj])
        new_list == NewId(st)
    IN
        IF size < 0 THEN CopyError(st, "SystemError")
        ELSE LET s1 == Log(Alloc(st, Seq_("list", Nulls(size))), "build", c, obj, new_list)
             IN
                 ts_ListLoop(SaveToMemo(s1, obj, new_list, c), obj, new_list, size, c, d, 1)

RECURSIVE ts_TupleLoop(_, _, _, _, _, _, _, _)
ts_TupleLoop(st, obj, new_tuple, size, c, d, i, all_immutable) ==
    IF i > size THEN [Copied(st, "Mutable", new_tuple) EXCEPT !.tag =
                          IF all_immutable THEN "Immutable" ELSE "Mutable"]
    ELSE LET r == dispatch_copy(st, st.heap[obj].items[i], c, d)
         IN
             IF ~r.ok THEN r
             ELSE ts_TupleLoop([r.st EXCEPT !.heap[new_tuple].items[i] = r.v],
                               obj, new_tuple, size, c, d, i + 1,
                               all_immutable /\ r.tag = "Immutable")

\* PyTuple_New(size) fails likewise
copy_tuple(st, obj, c, d) ==
    LET size == ts_PyDict_Size(st.heap[obj])
        new_tuple == NewId(st)
    IN
        IF size < 0 THEN CopyError(st, "SystemError")
        ELSE
        LET s1 == Log(Alloc(st, Seq_("tuple", Nulls(size))), "build", c, obj, new_tuple)
        IN
        Bind(ts_TupleLoop(s1, obj, new_tuple, size, c, d, 1, TRUE), LAMBDA r :
            IF ~r.ok THEN r
            ELSE IF r.tag = "Immutable"
            THEN Copied(Log(r.st, "discard", c, obj, new_tuple), "Immutable", obj)
            ELSE Bind(IF c.use_thread_memo
                              THEN ts_MemoTable_lookup_with_hash(
                                     get_thread_memo(r.st).tm.memo.table, AddrOf(obj),
                                     hash_pointer(AddrOf(obj)))
                              ELSE NULL, LAMBDA found :
                     IF found # NULL THEN Copied(r.st, "FromMemo", found)
                     ELSE Copied(SaveToMemo(r.st, obj, new_tuple, c), "Mutable", new_tuple)))

\* the hooks the host finds on an object: user classes by their script, a
\* class object by its unbound functions, every other builtin by the default
\* __reduce_ex__, which yields a tuple
ts_ScriptOf(o) ==
    IF o.kind = "obj" THEN ClassTable[o.cls]
    ELSE IF o.kind = "type" THEN TypeScript(o.cls)
    ELSE Script("none", "tuple", 2, "tuple", 2, "ok", "none")

has_deepcopy_method(o) == ts_ScriptOf(o).dc # "none"

\* reconstruct_from_reduce reads items 0 and 1 of whatever the hook returned
ts_reconstruct_from_reduce(st, obj, how, size, c, d) ==
    IF how # "tuple" \/ size < 2
    THEN CopyError(Log(st, "wild_read", c, obj, NULL),
                   IF c.ub = "null" THEN "Error" ELSE "crash")
    ELSE LET args == NewId(st)
             s1 == Alloc(st, Seq_("tuple", st.heap[obj].args))
             copied_args == dispatch_copy(s1, args, c, d)
         IN
             IF ~copied_args.ok THEN copied_args
             ELSE LET ctor == ts_ScriptOf(copied_args.st.heap[obj]).ctor
                      s2 == Log(copied_args.st, "ctor", c, obj, NULL)
                  IN
                      IF ctor # "ok" \/ copied_args.st.heap[obj].kind # "obj"
                      THEN CopyError(s2, "TypeError")
                      ELSE Bind(CallConstructor(copied_args.st, obj,
                                                       copied_args.v, c), LAMBDA made :
                               Copied(made.st, "Mutable", made.v))

copy_via_reduce(st, obj, c, d) ==
    Bind(ts_ScriptOf(st.heap[obj]), LAMBDA sc :
    LET which == IF sc.rex # "noattr" THEN "reduce_ex" ELSE "reduce"
    IN
    Bind(IF sc.rex # "noattr" THEN sc.rex ELSE sc.red, LAMBDA how :
    Bind(IF sc.rex # "noattr" THEN sc.rexn ELSE sc.redn, LAMBDA size :
        IF how = "noattr" THEN CopyError(st, "AttributeError")
        ELSE Bind(Log(st, which, c, obj, IF how = "tuple" THEN size ELSE 0), LAMBDA s1 :
                 IF how \in {"raise", "typeerror"}
                 THEN CopyError(s1, IF how = "raise" THEN "Exception" ELSE "TypeError")
                 ELSE ts_reconstruct_from_reduce(s1, obj, how, size, c, d)))))

copy_set(st, obj, c, d) == copy_via_reduce(st, obj, c, d)
copy_frozenset(st, obj, c, d) == copy_via_reduce(st, obj, c, d)

\* the public deepcopy called from inside a hook, between two looks at what
\* the thread's memo holds
NestedCall(st, x, memo_arg, c, d) ==
    LET s1 == Log(st, "nest_enter", c, x, ThreadMemoContents(st.tm))
        r == copium_deepcopy(s1, x, memo_arg, d, c.ub)
    IN
        [r EXCEPT !.st = Log(@, "nest_exit", c, x, ThreadMemoContents(@.tm))]

RECURSIVE ts_DeepHookArgs(_, _, _, _, _, _, _)
ts_DeepHookArgs(st, args, memo_arg, c, d, i, acc) ==
    IF i > Len(args) THEN [st |-> st, ok |-> TRUE, v |-> acc, e |-> ""]
    ELSE Bind(NestedCall(st, args[i], memo_arg, c, d), LAMBDA r :
             IF ~r.ok THEN r
             ELSE ts_DeepHookArgs(r.st, args, memo_arg, c, d, i + 1, Append(acc, r.v)))

\* PyObject_CallOneArg(method, memo_arg): the body of the user's hook
ts_CallDeepcopyHook(st, obj, memo_arg, c, d) ==
    LET o == st.heap[obj]
    IN
    Bind(ts_ScriptOf(o).dc, LAMBDA dc :
    LET s1 == Log(st, "deepcopy", c, obj, memo_arg)
        fresh(s, args) == Copied(Alloc(s, Inst(o.cls, o.attrs, args)), "Mutable", NewId(s))
    IN
        CASE dc = "fresh" -> fresh(s1, o.args)
          [] dc = "self" -> Copied(s1, "Mutable", obj)
          [] dc = "mutate" -> fresh([s1 EXCEPT !.heap = MutateSet(@, o.args)], o.args)
          [] dc = "deep" ->
                IF d = 0 THEN CopyError(Log(s1, "overflow", c, obj, NULL), "RecursionError")
                ELSE Bind(ts_DeepHookArgs(s1, o.args, memo_arg, c, d - 1, 1, <<>>), LAMBDA r :
                         IF ~r.ok THEN CopyError(r.st, r.e) ELSE fresh(r.st, r.v))
          [] dc = "nested" ->
                IF d = 0 THEN CopyError(Log(s1, "overflow", c, obj, NULL), "RecursionError")
                ELSE IF o.args = <<>> THEN fresh(s1, o.args)
                ELSE Bind(NestedCall(s1, o.args[1], NULL, c, d - 1), LAMBDA r :
                         IF ~r.ok THEN CopyError(r.st, r.e) ELSE fresh(r.st, o.args))
          [] dc = "raise" -> CopyError(s1, "Exception")
          [] OTHER -> CopyError(s1, "TypeError"))

\* create_memo_proxy: a _Memo object, which is not a dict
call_deepcopy_method(st, obj, c, d) ==
    LET proxied == c.user_memo = NULL /\ c.use_thread_memo
        s1 == IF proxied THEN Alloc(st, Scalar("proxy", 0)) ELSE st
        memo_arg == IF c.user_memo # NULL THEN c.user_memo
                    ELSE IF proxied THEN NewId(st) ELSE R("none")
    IN
        ts_CallDeepcopyHook(s1, obj, memo_arg, c, d)

\* the native stack is finite: d frames are left
\* tp_name: a class defined by a program carries the name it was given,
\* which may be the name of a built-in type
tp_name(o) == IF o.kind = "obj" THEN o.cls ELSE o.kind

dispatch_copy(st, obj, c, d) ==
    LET kind == tp_name(st.heap[obj])
    IN
        IF d = 0 THEN CopyError(Log(st, "overflow", c, obj, NULL), "stack overflow")
        ELSE CASE kind = "dict" -> copy_dict(st, obj, c, d - 1)
               [] kind = "list" -> copy_list(st, obj, c, d - 1)
               [] kind = "set" -> copy_set(st, obj, c, d - 1)
               [] kind = "frozenset" -> copy_frozenset(st, obj, c, d - 1)
               [] kind = "tuple" -> copy_tuple(st, obj, c, d - 1)
               [] OTHER -> IF has_deepcopy_method(st.heap[obj])
                           THEN call_deepcopy_method(st, obj, c, d - 1)
                           ELSE copy_via_reduce(st, obj, c, d - 1)

deepcopy_with_user_memo(st, obj, user_memo, c, d) ==
    LET found == IF st.heap[user_memo].kind = "dict"
                 THEN PyDict_GetItemInt(st.heap, user_memo, AddrOf(obj)) ELSE NULL
    IN
        IF found # NULL THEN Copied(st, "FromMemo", found)
        ELSE dispatch_copy(st, obj, c, d)

deepcopy_with_thread_memo(st, obj, c, d) == dispatch_copy(st, obj, c, d)

\* deepcopy.rs deepcopy_impl
ts_deepcopy_impl(st, obj, memo, d, ub) ==
    LET op == st.nop + 1
        c == [user_memo |-> memo, use_thread_memo |-> memo = NULL, op |-> op, ub |-> ub]
        s0 == Log([st EXCEPT !.nop = op], "enter", c, obj, memo)
    IN
    Bind(IF is_atomic_immutable(st.heap[obj]) THEN Copied(s0, "Immutable", obj)
             ELSE IF memo # NULL THEN deepcopy_with_user_memo(s0, obj, memo, c, d)
             ELSE deepcopy_with_thread_memo(s0, obj, c, d), LAMBDA r :
        [st |-> Log(r.st, "exit", c, r.v, IF r.ok THEN 1 ELSE 0),
         ok |-> r.ok, v |-> r.v, e |-> r.e])

cleanup_after_call(st) == reset_thread_memo(st)

\* lib.rs deepcopy
copium_deepcopy(st, x, memo, d, ub) ==
    Bind(ts_deepcopy_impl(st, x, memo, d, ub), LAMBDA result :
        [result EXCEPT !.st = cleanup_after_call(
            Log(@, "reset", [op |-> st.nop + 1], x, ThreadMemoContents(@.tm)))])

\* extra.rs replicate; every iteration records what the thread's memo holds
\* when it starts
RECURSIVE ReplicateLoop(_, _, _, _, _, _, _)
ReplicateLoop(st, obj, list, i, n, d, ub) ==
    IF i > n THEN Ok(st, list)
    ELSE Bind(ts_deepcopy_impl(Log(st, "iter", [op |-> st.nop + 1], obj,
                                   ThreadMemoContents(st.tm)),
                               obj, NULL, d, ub), LAMBDA copied :
             IF ~copied.ok THEN Err(copied.st, copied.e)
             ELSE ReplicateLoop([copied.st EXCEPT !.heap = PyList_Append(@, list, copied.v)],
                                obj, list, i + 1, n, d, ub))

replicate(st, obj, n, d, ub) ==
    ReplicateLoop(Alloc(st, Seq_("list", <<>>)), obj, NewId(st), 1, n, d, ub)

\* ------------------------------------------------------------------------
\* The state machine
\* ------------------------------------------------------------------------
MaxOps == 2
MaxDepth == 5
MaxCopies == 2

\* the two engines of the repository: the generic walk of rust/ and the
\* walk over the thread's ThreadMemo
Engines == {"rust", "thread"}

\* what a read through a pointer of the wrong type may give
UBOutcomes == {"null", "crash"}

VARIABLES
    engine, \* which engine the extension module was built from
    heap,   \* the host's objects
    pool,   \* rust/: the pooled memo + retention pair of this thread
    tmemo,  \* THREAD_MEMO of proxy.rs
    root,   \* the caller's root node
    memo,   \* the caller's memo argument (NULL: none)
    nops,   \* top-level operations performed
    last,   \* the last top-level operation: its result and what it saw
    log     \* the events of the last top-level operation

vars == <<engine, heap, pool, tmemo, root, memo, nops, last, log>>

NoOp == [kind |-> "none", ok |-> FALSE, v |-> NULL, e |-> "", pre |-> <<>>]

Init ==
    /\ engine \in Engines
    /\ heap = Universe
    /\ pool = [present |-> FALSE,
               pair |-> [table |-> MemoTable_new, keepalive |-> KeepAlive_new]]
    /\ tmemo = [present |-> FALSE]
    /\ root \in Roots
    /\ memo \in Memos
    /\ nops = 0
    /\ last = NoOp
    /\ log = <<>>

Machine ==
    [heap |-> heap, pool |-> pool, tls |-> <<>>, nop |-> 0, log |-> <<>>, tm |-> tmemo]

\* rust/lib.rs: copium.deepcopy(root, memo)
Deepcopy ==
    /\ engine = "rust"
    /\ nops < MaxOps
    /\ \E r \in {deepcopy_impl(Machine, root, memo, MaxDepth)} :
           /\ heap' = r.st.heap
           /\ pool' = r.st.pool
           /\ log' = r.st.log
           /\ last' = [kind |-> "deepcopy", ok |-> r.ok, v |-> r.v, e |-> r.e,
                       pre |-> heap]
    /\ nops' = nops + 1
    /\ UNCHANGED <<engine, tmemo, root, memo>>

\* the outcomes the build may give this run: more than one only where the
\* run reads through a pointer of the wrong type
Outcomes(r) ==
    IF \E i \in DOMAIN r.st.log : r.st.log[i].ev = "wild_read"
    THEN UBOutcomes ELSE {"null"}

\* lib.rs: copium.deepcopy(root, memo)
CopiumDeepcopy ==
    /\ engine = "thread"
    /\ nops < MaxOps
    /\ \E r0 \in {copium_deepcopy(Machine, root, memo, MaxDepth, "null")} :
       \E ub \in Outcomes(r0) :
       \E r \in {IF ub = "null" THEN r0
                 ELSE copium_deepcopy(Machine, root, memo, MaxDepth, ub)} :
                  /\ heap' = r.st.heap
                  /\ tmemo' = r.st.tm
                  /\ log' = r.st.log
                  /\ last' = [kind |-> "copium_deepcopy", ok |-> r.ok, v |-> r.v,
                              e |-> r.e, pre |-> heap]
    /\ nops' = nops + 1
    /\ UNCHANGED <<engine, pool, root, memo>>

\* extra.rs: copium.extra.replicate(root, n); it takes no memo, whatever
\* memo the caller's other calls pass
Replicate ==
    /\ engine = "thread"
    /\ nops < MaxOps
    /\ \E n \in 1..MaxCopies :
          \E r0 \in {replicate(Machine, root, n, MaxDepth, "null")} :
          \E ub \in Outcomes(r0) :
          \E r \in {IF ub = "null" THEN r0
                    ELSE replicate(Machine, root, n, MaxDepth, ub)} :
                     /\ heap' = r.st.heap
                     /\ tmemo' = r.st.tm
                     /\ log' = r.st.log
                     /\ last' = [kind |-> "replicate", ok |-> r.ok, v |-> r.v,
                                 e |-> r.e, pre |-> heap]
    /\ nops' = nops + 1
    /\ UNCHANGED <<engine, pool, root, memo>>

\* the caller stores x into slot i of the container the last clone returned
WriteSlot ==
    /\ last.kind \in {"deepcopy", "copium_deepcopy"} /\ last.ok
    /\ heap[last.v].kind \in {"dict", "list"}
    /\ \E x \in {R("none"), R("l_other")} :
          \/ /\ heap[last.v].kind = "list"
             /\ \E i \in DOMAIN heap[last.v].items : heap' = [heap EXCEPT ![last.v].items[i] = x]
          \/ /\ heap[last.v].kind = "dict"
             /\ \E i \in DOMAIN heap[last.v].vals : heap' = [heap EXCEPT ![last.v].vals[i] = x]
    /\ last' = [kind |-> "write", ok |-> TRUE, v |-> last.v, e |-> "", pre |-> heap]
    /\ UNCHANGED <<engine, pool, tmemo, root, memo, nops, log>>

\* user code kept the _Memo proxy a hook was handed by an earlier operation
\* and stores through it: proxy[id(root)] = x
ProxySetItem ==
    /\ engine = "thread"
    /\ \E p \in DOMAIN heap : heap[p].kind = "proxy"
    /\ \E x \in {R("l_other")} :
          tmemo' = MemoProxy_setitem([tm |-> tmemo], AddrOf(root), x).tm
    /\ last' = [kind |-> "setitem", ok |-> TRUE, v |-> NULL, e |-> "", pre |-> heap]
    /\ UNCHANGED <<engine, heap, pool, root, memo, nops, log>>

Next == Deepcopy \/ CopiumDeepcopy \/ Replicate \/ WriteSlot \/ ProxySetItem

Spec == Init /\ [][Next]_vars

\* ------------------------------------------------------------------------
\* Reading the record of the last operation
\* ------------------------------------------------------------------------
Events(ev) == {i \in DOMAIN log : log[i].ev = ev}
TopEvents(ev) == {i \in Events(ev) : log[i].op = 1}

\* the values the top-level walk handed back for x
Rets(x) == {log[i].v : i \in {j \in TopEvents("ret") : log[j].k = x}}

\* the memo did not resolve the root: the walk dispatched it to its handler
RootWalked ==
    \E i \in TopEvents("lookup") :
        /\ log[i].k = root /\ log[i].v = NULL
        /\ \A j \in TopEvents("lookup") : j >= i

Cloned == last.kind = "deepcopy" /\ last.ok

IsSelfList(h, x) == h[x].kind = "list" /\ h[x].items = <<x>>

NonAtomic(h, x) == h[x].kind \notin {"none", "int", "float", "str", "bytes", "bool", "type"}

SharedKinds ==
    {IF last.pre[last.pre[root].vals[1]].kind = "obj"
     THEN last.pre[last.pre[root].vals[1]].cls
     ELSE last.pre[last.pre[root].vals[1]].kind}

AllShared(t) ==
    \A i \in DOMAIN heap[t].items :
        LET x == heap[t].items[i]
        IN  \/ is_immutable_literal(heap[x])
            \/ (Rets(x) = {x})

C3_SingleClonePerIdentity ==
    engine = "rust" =>
    \A i, j \in Events("insert") :
        (i < j /\ log[i].op = log[j].op /\ log[i].k = log[j].k) =>
            /\ log[i].v = log[j].v
            /\ ~\E b \in Events("build") :
                   b > i /\ log[b].op = log[i].op /\ log[b].k = log[i].k

MemoEvents == Events("lookup") \cup Events("insert") \cup Events("keepalive")

\* C4 (as stated): every atomic immutable value (none, numeric scalar, text,
\* bytes, type object), root or child, clones to itself with no memo lookup,
\* no memo insertion and no retention-buffer append.
C4_AtomsBypassMemo ==
    last.kind = "deepcopy" =>
        \A x \in DOMAIN last.pre :
            ~NonAtomic(last.pre, x) =>
                /\ ~\E i \in MemoEvents : log[i].k = x
                /\ Rets(x) \subseteq {x}
                /\ (x = root => last.ok /\ last.v = x)

HookEvents ==
    Events("reduce_ex") \cup Events("reduce") \cup Events("ctor")
        \cup Events("setstate") \cup Events("deepcopy")

\* C7 (as stated): when the external memo already holds an entry for the
\* identity of a non-atomic x, clone(x, memo) returns exactly that memoized
\* object and invokes no override, decomposition, constructor or set-state
\* hook, on the first call and on every later call with the same memo.
C7_ExternalMemoHit ==
    (/\ last.kind = "deepcopy" /\ memo # NULL
     /\ NonAtomic(last.pre, root)
     /\ PyDict_GetItemInt(last.pre, memo, AddrOf(root)) # NULL) =>
        /\ last.ok
        /\ last.v = PyDict_GetItemInt(last.pre, memo, AddrOf(root))
        /\ HookEvents = {}

\* C8 (as stated): whenever a decomposition hook yields a tuple of more than
\* 5 elements the operation ends with the protocol-violation error at once:
\* no further decomposition hook or constructor runs for that node and no
\* clone is returned.
C8_OversizedReduceFatal ==
    engine = "rust" =>
    \A i \in Events("reduce_ex") \cup Events("reduce") :
        log[i].v > 5 =>
            /\ ~last.ok
            /\ last.e = "TypeError"
            /\ ~\E j \in Events("reduce_ex") \cup Events("reduce") \cup Events("ctor") :
                   j > i /\ log[j].k = log[i].k

\* a nested top-level call and its return, as seen by the operation op
NestPairs ==
    {<<i, j>> \in Events("nest_enter") \X Events("nest_exit") :
        /\ i < j /\ log[i].op = log[j].op
        /\ ~\E x \in Events("nest_enter") \cup Events("nest_exit") :
              i < x /\ x < j /\ log[x].op = log[i].op}

\* C9 (as stated): while an operation on the pooled memo is in flight, a
\* nested top-level clone call made from a user hook neither clears nor
\* changes the outer operation's memo entries or its retention buffer.
C9_NestedCallKeepsOuterMemo ==
    (last.kind \in {"deepcopy", "copium_deepcopy"} /\ memo = NULL) =>
        \A p \in NestPairs : log[p[1]].v = log[p[2]].v

\* C10 (as stated): after every top-level operation that clones through the
\* pooled memo, value or error, the pooled table has no live entries, the
\* retention buffer is empty, and neither is larger than the shrink policy
\* allows.
C10_PoolCleanAfterOperation ==
    /\ (last.kind = "deepcopy" /\ memo = NULL) =>
          /\ pool.present
          /\ LiveEntries(pool.pair.table) = {}
          /\ pool.pair.keepalive.items = <<>>
          /\ pool.pair.table.size <= MAX_SLOTS
          /\ pool.pair.keepalive.cap <= MAX_CAPACITY
    /\ (\/ (last.kind = "copium_deepcopy" /\ memo = NULL)
        \/ last.kind = "replicate") =>
          (tmemo.present =>
              /\ LiveEntries(tmemo.memo.table) = {}
              /\ tmemo.memo.keepalive.items = <<>>
              /\ tmemo.memo.table.size <= RETAIN_MAX_SLOTS
              /\ tmemo.memo.keepalive.capacity <= RETAIN_MAX)

\* ------------------------------------------------------------------------
\* replicate
\* ------------------------------------------------------------------------
Replicated == last.kind = "replicate" /\ last.ok

\* what the thread's memo held when the iterations after the first started
LaterIterations == {i \in Events("iter") : \E j \in Events("iter") : j < i}

\* C11 (as stated): replicate(root, n) performs n independent clone
\* operations: no memo entry created in one iteration is visible to a later
\* iteration, and for a root that no atomic or all-shared short-circuit hands
\* back the n results are pairwise distinct objects, none of them the
\* original.
C11_ReplicateIndependent ==
    Replicated =>
        /\ \A i \in LaterIterations : log[i].v.entries = {}
        /\ (NonAtomic(last.pre, root) /\ heap[last.v].items[1] # root) =>
              \A i, j \in DOMAIN heap[last.v].items :
                  /\ heap[last.v].items[i] # root
                  /\ (i # j => heap[last.v].items[i] # heap[last.v].items[j])

\* ------------------------------------------------------------------------
\* the caller's memo
\* ------------------------------------------------------------------------
\* no call of the step, top-level or nested, took the pooled memo
NoPooledCall == \A i \in DOMAIN log' : log'[i].ev = "enter" => log'[i].v # NULL

\* every registration of the step is in the caller's mapping
RegisteredWithCaller ==
    \A i \in DOMAIN log' :
        log'[i].ev = "insert" => PyDict_GetItemInt(heap', memo, AddrOf(log'[i].k)) # NULL

\* C12 (as stated): when clone is called with an externally supplied memo,
\* every registration of that operation goes to the caller's mapping, and
\* the thread's pooled memo table and retention buffer are not modified by
\* that operation.
C12_ExternalMemoFrame ==
    [][(memo # NULL /\ last'.kind \in {"deepcopy", "copium_deepcopy"} /\ NoPooledCall) =>
          /\ RegisteredWithCaller
          /\ pool' = pool
          /\ tmemo' = tmemo]_vars

\* ------------------------------------------------------------------------
\* the memo proxy
\* ------------------------------------------------------------------------
\* C13 (as stated): a pooled pair that was exposed to user code through a
\* memo proxy is not handed to any later operation: a store through a proxy
\* that user code kept leaves the pair the thread's next operation works on
\* unchanged.
C13_ExposedPairAbandoned ==
    [][last'.kind = "setitem" => tmemo' = tmemo]_vars

\* ------------------------------------------------------------------------
\* the memo lifecycle
\* ------------------------------------------------------------------------
\* the step is an operation that registered something in the pooled memo
UsesPooledMemo ==
    /\ memo = NULL
    /\ last'.kind \in {"deepcopy", "copium_deepcopy", "replicate"}
    /\ \E i \in DOMAIN log' : log'[i].ev = "insert"

\* cleanup has run since the pooled memo was last used
CleanedUp ==
    /\ ThreadMemoContents(tmemo) = [entries |-> {}, kept |-> <<>>]
    /\ LiveEntries(pool.pair.table) = {}
    /\ pool.pair.keepalive.items = <<>>

\* C15 (as stated): the memo lifecycle of every operation follows
\* Uninitialized -> (FromUser | Initialized) -> Cleanup: every operation that
\* initialised the pooled memo is followed by cleanup before the next
\* operation uses it, so an operation that uses the pooled memo starts on a
\* cleaned-up one.
C15_MemoLifecycle ==
    [][UsesPooledMemo => CleanedUp]_vars

\* ------------------------------------------------------------------------
\* The memo table on its own.  The calls of its contract are applied, in any
\* order, to the table of the thread (memo.rs, engine "thread") or of the
\* pooled pair (rust/memo.rs, engine "rust"); memo is the mapping a caller
\* would keep beside it: the value of the latest insert of every key since
\* the last clear.
\* ------------------------------------------------------------------------
MaxKeys == 7

\* identities in the order they are first registered; the hashes of several
\* of them fall on the same slot of a small table
KeyIds == <<4, 7, 2, 8, 13, 3, 14, 15, 9, 10, 11, 12>>
TableKeys == {AddrOf(KeyIds[i]) : i \in 1..MaxKeys}
TableValues == {R("l_inner"), R("l_other")}

\* rust/state.rs MemoState::reset
MemoState_reset(pair) ==
    [table |-> MemoTable_shrink_if_large(MemoTable_clear(pair.table)),
     keepalive |-> KeepAlive_shrink_if_large(KeepAlive_clear(pair.keepalive))]

\* a table that earlier operations of the thread grew past the retention
\* limit and that has been cleared since
GrownTables ==
    IF engine = "thread"
    THEN {ts_MemoTable_new, ts_MemoTable_clear(ts_MemoTable_resize(ts_MemoTable_new, 2 * RETAIN_MAX_SLOTS))}
    ELSE {MemoTable_new, MemoTable_clear(MemoTable_resize(MemoTable_new, 2 * MAX_SLOTS))}

TableOf == IF engine = "thread" THEN tmemo.memo.table ELSE pool.pair.table

T_lookup(t, k) ==
    IF engine = "thread" THEN ts_MemoTable_lookup_with_hash(t, k, hash_pointer(k))
    ELSE MemoTable_lookup(t, k, hash_pointer(k))

T_insert(t, k, v) ==
    IF engine = "thread" THEN ts_MemoTable_insert_with_hash(t, k, v, hash_pointer(k))
    ELSE MemoTable_insert(t, k, v, hash_pointer(k))

T_clear(t) == IF engine = "thread" THEN ts_MemoTable_clear(t) ELSE MemoTable_clear(t)

T_shrink_if_large(t) ==
    IF engine = "thread" THEN ts_MemoTable_shrink_if_large(t)
    ELSE MemoTable_shrink_if_large(t)

SetTable(t) ==
    /\ tmemo' = IF engine = "thread" THEN [tmemo EXCEPT !.memo.table = t] ELSE tmemo
    /\ pool' = IF engine = "rust" THEN [pool EXCEPT !.pair.table = t] ELSE pool

Call(kind, k, v) == [kind |-> kind, k |-> k, v |-> v, pre |-> TableOf]

\* the value memo holds for k
Ref(k) == IF k \in DOMAIN memo THEN memo[k] ELSE NULL

\* the identity that is registered next for the first time
NextKeys ==
    {AddrOf(KeyIds[i]) : i \in {j \in 1..MaxKeys :
        /\ AddrOf(KeyIds[j]) \notin DOMAIN memo
        /\ \A h \in 1..(j - 1) : AddrOf(KeyIds[h]) \in DOMAIN memo}}

MemoInit ==
    /\ engine \in Engines
    /\ heap = Universe
    /\ \E t \in GrownTables :
          /\ tmemo = [present |-> TRUE, memo |-> [ThreadMemo_new EXCEPT !.table =
                          IF engine = "thread" THEN t ELSE ts_MemoTable_new]]
          /\ pool = [present |-> TRUE,
                     pair |-> [table |-> IF engine = "rust" THEN t ELSE MemoTable_new,
                               keepalive |-> KeepAlive_new]]
    /\ root = R("none")
    /\ memo = <<>>
    /\ nops = 0
    /\ last = NoOp
    /\ log = <<>>

\* insert(k, v, hash(k))
MemoInsert ==
    /\ nops = 0
    /\ \E k \in DOMAIN memo \cup NextKeys : \E v \in TableValues :
          /\ SetTable(T_insert(TableOf, k, v))
          /\ memo' = (k :> v) @@ memo
          /\ last' = Call("insert", k, v)
    /\ UNCHANGED <<engine, heap, root, nops, log>>

\* lookup(k, hash(k))
MemoLookup ==
    /\ nops = 0
    /\ \E k \in TableKeys : last' = Call("lookup", k, T_lookup(TableOf, k))
    /\ UNCHANGED <<engine, heap, pool, tmemo, root, memo, nops, log>>

\* clear()
MemoClear ==
    /\ nops = 0
    /\ SetTable(T_clear(TableOf))
    /\ memo' = <<>>
    /\ last' = Call("clear", NULL, NULL)
    /\ UNCHANGED <<engine, heap, root, nops, log>>

\* shrink_if_large()
MemoShrink ==
    /\ nops = 0
    /\ SetTable(T_shrink_if_large(TableOf))
    /\ last' = Call("shrink_if_large", NULL, NULL)
    /\ UNCHANGED <<engine, heap, root, memo, nops, log>>

\* the end of the operation: ThreadMemo::reset, MemoState::reset
MemoReset ==
    /\ nops = 0
    /\ tmemo' = IF engine = "thread" THEN [tmemo EXCEPT !.memo = ThreadMemo_reset(@)]
                ELSE tmemo
    /\ pool' = IF engine = "rust" THEN [pool EXCEPT !.pair = MemoState_reset(@)] ELSE pool
    /\ memo' = <<>>
    /\ last' = Call("reset", NULL, NULL)
    /\ UNCHANGED <<engine, heap, root, nops, log>>

\* the roots of the next operation
NextRoots == {R("m_empty"), R("sh_dict"), R("o_hook")}

\* the next operation of the thread: copium.deepcopy(x)
MemoClone ==
    /\ nops = 0
    /\ last.kind = "reset"
    /\ \E x \in NextRoots :
       \E r \in {IF engine = "thread"
                 THEN copium_deepcopy(Machine, x, NULL, MaxDepth, "null")
                 ELSE deepcopy_impl(Machine, x, NULL, MaxDepth)} :
          /\ root' = x
          /\ heap' = r.st.heap
          /\ tmemo' = r.st.tm
          /\ pool' = r.st.pool
          /\ log' = r.st.log
          /\ last' = [kind |-> "clone", k |-> x, v |-> r.v, ok |-> r.ok, pre |-> TableOf]
    /\ nops' = 1
    /\ UNCHANGED <<engine, memo>>

MemoNext ==
    MemoInsert \/ MemoLookup \/ MemoClear \/ MemoShrink \/ MemoReset \/ MemoClone

MemoSpec == MemoInit /\ [][MemoNext]_vars

\* ------------------------------------------------------------------------
\* Reading a table
\* ------------------------------------------------------------------------
LiveSlots(t) == {i \in DOMAIN t.slots : t.slots[i].key # TOMBSTONE}
SlotsOf(t, k) == {i \in DOMAIN t.slots : t.slots[i].key = k}
Holders(t, v) == {i \in LiveSlots(t) : t.slots[i].value = v}

\* the table holds one reference for every live slot, and no other
OneReferencePerSlot(t) ==
    \A v \in TableValues \cup DOMAIN t.refs :
        Held(t.refs, v) = Cardinality(Holders(t, v))

Reinserted == last.kind = "insert" /\ SlotsOf(last.pre, last.k) # {}

\* C17: inserting an identity that already has a live entry replaces that
\* entry's value in place: the live-entry count is unchanged, exactly one
\* slot holds the identity afterwards, the table has given back its
\* reference to the old value and holds one reference to the new value for
\* that slot (memo.rs insert_with_hash, also when the insert resizes first).
C17_ReinsertInPlace ==
    Reinserted =>
        /\ TableOf.used = last.pre.used
        /\ Cardinality(SlotsOf(TableOf, last.k)) = 1
        /\ \A i \in SlotsOf(TableOf, last.k) : TableOf.slots[i].value = last.v
        /\ OneReferencePerSlot(last.pre) => OneReferencePerSlot(TableOf)
        /\ \A i \in SlotsOf(last.pre, last.k) :
              last.pre.slots[i].value # last.v =>
                  /\ Held(TableOf.refs, last.pre.slots[i].value)
                        = Held(last.pre.refs, last.pre.slots[i].value) - 1
                  /\ Held(TableOf.refs, last.v) = Held(last.pre.refs, last.v) + 1

C17_Witness ==
    /\ Reinserted
    /\ engine = "thread"
    /\ TableOf.size > last.pre.size
    /\ \E i \in SlotsOf(last.pre, last.k) : last.pre.slots[i].value # last.v
    /\ Held(TableOf.refs, last.v) >= 2

\* C18: in every reachable state of the memo table used <= filled <= size,
\* where used is the number of live entries, filled the number of live
\* entries and tombstones, and size the slot count: after every insert,
\* re-insert, resize, clear and shrink_if_large.
C18_Counters ==
    /\ TableOf.used <= TableOf.filled
    /\ TableOf.filled <= TableOf.size
    /\ TableOf.used = Cardinality(LiveSlots(TableOf))
    /\ TableOf.filled = Cardinality(DOMAIN TableOf.slots)
    /\ \A i \in DOMAIN TableOf.slots : i \in 0..(TableOf.size - 1)

C18_Witness ==
    /\ engine = "thread"
    /\ last.kind = "shrink_if_large"
    /\ TableOf.size < last.pre.size
    /\ TableOf.used = MaxKeys

\* C19 (as stated): in every reachable state of the memo table the load
\* factor is bounded at 70%: filled*10 <= size*7 after every insert.
C19_LoadFactor ==
    TableOf.filled * 10 <= TableOf.size * 7

\* C19 (amended): an insert doubles the capacity first when it arrives at
\* filled/size >= 0.7, so the load was below 70% when the entry was placed:
\* after every insert (filled - 1) * 10 < size * 7, one entry above the 70%
\* line at most.
C19_LoadFactorWhenPlaced ==
    /\ (TableOf.filled - 1) * 10 < TableOf.size * 7 \/ TableOf.filled = 0
    /\ (last.kind = "insert" /\ last.pre.size > 0
          /\ last.pre.filled * 10 >= last.pre.size * 7) =>
            TableOf.size = 2 * last.pre.size

C19_Witness ==
    /\ engine = "thread"
    /\ last.kind = "insert"
    /\ TableOf.size = 2 * last.pre.size
    /\ last.pre.filled * 10 > last.pre.size * 7

\* C20: clear() gives back the table's reference to every live value, once
\* per slot holding it, resets used and filled to 0 and leaves the slot
\* count unchanged; afterwards lookup returns not-found for every key, as on
\* a table that never held an entry.
C20_Clear ==
    last.kind = "clear" =>
        /\ \A v \in TableValues :
              Held(TableOf.refs, v)
                 = Held(last.pre.refs, v) - Cardinality(Holders(last.pre, v))
        /\ TableOf.used = 0
        /\ TableOf.filled = 0
        /\ TableOf.size = last.pre.size
        /\ TableOf.slots = EmptySlots
        /\ \A k \in TableKeys : T_lookup(TableOf, k) = NULL

C20_Witness ==
    /\ last.kind = "clear"
    /\ engine = "thread"
    /\ \E v \in TableValues : Cardinality(Holders(last.pre, v)) >= 2
    /\ last.pre.size > INITIAL_SIZE
    /\ TableOf.refs = NoRefs

\* C16, for the call sequences within MaxKeys: lookup(k, hash(k)) returns
\* the value of the latest insert of k since the last clear and not-found
\* for every other key, after any sequence of insert, clear and
\* shrink_if_large calls, the inserts that resize included.  A shrink of a
\* table that holds RETAIN_SHRINK_TO live entries or more is beyond these
\* sequences.
C16_ReferenceMap ==
    /\ \A k \in TableKeys : T_lookup(TableOf, k) = Ref(k)
    /\ last.kind = "lookup" => last.v = Ref(last.k)

\* the same operation on a thread whose table never grew
CloneOnNewTable ==
    IF engine = "thread"
    THEN copium_deepcopy([heap |-> Universe, pool |-> pool, tls |-> <<>>, nop |-> 0,
                          log |-> <<>>, tm |-> [present |-> FALSE]],
                         root, NULL, MaxDepth, "null")
    ELSE deepcopy_impl([heap |-> Universe,
                        pool |-> [present |-> FALSE,
                                  pair |-> [table |-> MemoTable_new,
                                            keepalive |-> KeepAlive_new]],
                        tls |-> <<>>, nop |-> 0, log |-> <<>>, tm |-> tmemo],
                       root, NULL, MaxDepth)

T_drop(t) == IF engine = "thread" THEN ts_MemoTable_drop(t) ELSE MemoTable_drop(t)

\* the value the key k had in table t, NULL if none
ValueOf(t, k) ==
    IF SlotsOf(t, k) = {} THEN NULL ELSE t.slots[CHOOSE i \in SlotsOf(t, k) : TRUE].value

Moved == last.kind \in {"insert", "shrink_if_large", "reset"} /\ TableOf.size # last.pre.size

\* C39: after any sequence of insert, re-insert, resize, shrink_if_large and
\* clear the table holds, on each value, as many references as live slots
\* store that value; a resize or a shrink moves the entries without changing
\* the references of any value (an insert that resizes changes those of the
\* value it stores and of the value it replaces, by one); and dropping the
\* table gives back every reference it holds.
C39_ReferenceBalance ==
    /\ OneReferencePerSlot(TableOf)
    /\ last.kind = "shrink_if_large" =>
           /\ LiveEntries(TableOf) = LiveEntries(last.pre)
           /\ \A v \in TableValues : Held(TableOf.refs, v) = Held(last.pre.refs, v)
    /\ last.kind = "insert" =>
           /\ LiveEntries(TableOf) \ {<<last.k, last.v>>}
                 = {e \in LiveEntries(last.pre) : e[1] # last.k}
           /\ \A v \in TableValues :
                  Held(TableOf.refs, v) = Held(last.pre.refs, v)
                      + (IF v = last.v THEN 1 ELSE 0)
                      - (IF v = ValueOf(last.pre, last.k) THEN 1 ELSE 0)
    /\ \A v \in TableValues \cup DOMAIN TableOf.refs : Held(T_drop(TableOf).refs, v) = 0
    /\ T_drop(TableOf).slots = EmptySlots

\* a table that holds references to both values, two to one of them, has
\* just moved its entries to another slot array
C39_Witness ==
    /\ Moved
    /\ Held(TableOf.refs, R("l_inner")) >= 2
    /\ Held(TableOf.refs, R("l_other")) >= 1
    /\ Held(T_drop(TableOf).refs, R("l_inner")) = 0

\* the same in the other draft's table
MovedRust == engine = "rust" /\ C39_Witness
MovedThread == engine = "thread" /\ C39_Witness /\ last.kind = "shrink_if_large"

\* ------------------------------------------------------------------------
\* Construction of the table
\* ------------------------------------------------------------------------
\* the table is as its constructor left it: no call has been made on it and
\* no earlier operation grew it
NewTable == last = NoOp /\ TableOf.size <= RETAIN_MAX_SLOTS

C22_NewTableCapacity ==
    engine = "rust" =>
        /\ NewTable => /\ TableOf.size > 0
                       /\ TableOf.used = 0
                       /\ LiveSlots(TableOf) = {}
        /\ TableOf.size > 0

C22_Witness ==
    /\ engine = "rust"
    /\ NewTable
    /\ TableOf = MemoTable_new
    /\ TableOf.size = NEW_CAPACITY

\* ------------------------------------------------------------------------
\* The retention buffer on its own.  append, clear, shrink_if_large and the
\* reset of the pair are applied, in any order, to the KeepVector of the
\* thread (keepalive.rs, engine "thread") or to the KeepAlive of the pooled
\* pair (rust/keepalive.rs, engine "rust"); nops counts the appends.
\* ------------------------------------------------------------------------
MaxKept == 3

KeptNodes == {R("l_inner"), R("l_other")}

KeepOf == IF engine = "thread" THEN tmemo.memo.keepalive ELSE pool.pair.keepalive

CapacityOf(k) == IF engine = "thread" THEN k.capacity ELSE k.cap

\* a buffer holding n references to one node
Holding(k, n) ==
    [k EXCEPT !.items = [i \in 1..n |-> R("l_inner")],
              !.refs = IF n = 0 THEN NoRefs ELSE (R("l_inner") :> n)]

\* a new buffer, and buffers that an earlier part of the thread's work grew
\* past the retention limit: emptied since, or still holding more elements
\* than the shrink target
GrownKeeps ==
    IF engine = "thread"
    THEN {KeepVector_new,
          Holding(KeepVector_grow(KeepVector_new, RETAIN_MAX + 1), 0),
          Holding(KeepVector_grow(KeepVector_new, RETAIN_MAX + 1), RETAIN_TARGET + 1)}
    ELSE {KeepAlive_new,
          Holding([KeepAlive_new EXCEPT !.cap = 2 * MAX_CAPACITY], 0),
          Holding([KeepAlive_new EXCEPT !.cap = 2 * MAX_CAPACITY], KEEP_SHRINK_TO + 1)}

K_append(k, obj) ==
    IF engine = "thread" THEN KeepVector_append(k, obj) ELSE KeepAlive_append(k, obj)

K_clear(k) == IF engine = "thread" THEN KeepVector_clear(k) ELSE KeepAlive_clear(k)

K_shrink_if_large(k) ==
    IF engine = "thread" THEN KeepVector_shrink_if_large(k)
    ELSE KeepAlive_shrink_if_large(k)

SetKeep(k) ==
    /\ tmemo' = IF engine = "thread" THEN [tmemo EXCEPT !.memo.keepalive = k] ELSE tmemo
    /\ pool' = IF engine = "rust" THEN [pool EXCEPT !.pair.keepalive = k] ELSE pool

KeepCall(kind, obj) == [kind |-> kind, k |-> NULL, v |-> obj, pre |-> KeepOf]

KeepInit ==
    /\ engine \in Engines
    /\ heap = Universe
    /\ \E k \in GrownKeeps :
          /\ tmemo = [present |-> TRUE, memo |-> [ThreadMemo_new EXCEPT !.keepalive =
                          IF engine = "thread" THEN k ELSE KeepVector_new]]
          /\ pool = [present |-> TRUE,
                     pair |-> [table |-> MemoTable_new,
                               keepalive |-> IF engine = "rust" THEN k ELSE KeepAlive_new]]
    /\ root = R("none")
    /\ memo = <<>>
    /\ nops = 0
    /\ last = NoOp
    /\ log = <<>>

\* append(obj)
KeepAppend ==
    /\ nops < MaxKept
    /\ \E obj \in KeptNodes :
          /\ SetKeep(K_append(KeepOf, obj))
          /\ last' = KeepCall("append", obj)
    /\ nops' = nops + 1
    /\ UNCHANGED <<engine, heap, root, memo, log>>

\* clear()
KeepClear ==
    /\ SetKeep(K_clear(KeepOf))
    /\ last' = KeepCall("clear", NULL)
    /\ UNCHANGED <<engine, heap, root, memo, nops, log>>

\* shrink_if_large()
KeepShrink ==
    /\ SetKeep(K_shrink_if_large(KeepOf))
    /\ last' = KeepCall("shrink_if_large", NULL)
    /\ UNCHANGED <<engine, heap, root, memo, nops, log>>

\* the end of the operation: ThreadMemo::reset, MemoState::reset
KeepReset ==
    /\ tmemo' = IF engine = "thread" THEN [tmemo EXCEPT !.memo = ThreadMemo_reset(@)]
                ELSE tmemo
    /\ pool' = IF engine = "rust" THEN [pool EXCEPT !.pair = MemoState_reset(@)] ELSE pool
    /\ last' = KeepCall("reset", NULL)
    /\ UNCHANGED <<engine, heap, root, memo, nops, log>>

KeepNext == KeepAppend \/ KeepClear \/ KeepShrink \/ KeepReset

KeepSpec == KeepInit /\ [][KeepNext]_vars

\* how many elements of the buffer are the node v
Stored(k, v) == Cardinality({i \in DOMAIN k.items : k.items[i] = v})

KeptValues == KeptNodes \cup DOMAIN KeepOf.refs \cup DOMAIN last.pre.refs

\* C23: each append to the retention buffer takes one new owning reference
\* on the appended node and increases the length by one; clear() gives back
\* one reference per stored element and leaves the buffer empty, as a newly
\* created buffer is; so the buffer holds one reference per stored element
\* at any time and none after a clear: every node's net reference count is
\* unchanged by appends followed by clear.
C23_KeepaliveReferences ==
    /\ \A v \in KeptNodes \cup DOMAIN KeepOf.refs :
          Held(KeepOf.refs, v) = Stored(KeepOf, v)
    /\ last.kind = "append" =>
          /\ Len(KeepOf.items) = Len(last.pre.items) + 1
          /\ KeepOf.items = Append(last.pre.items, last.v)
          /\ Held(KeepOf.refs, last.v) = Held(last.pre.refs, last.v) + 1
          /\ \A v \in KeptValues \ {last.v} :
                Held(KeepOf.refs, v) = Held(last.pre.refs, v)
    /\ last.kind \in {"clear", "reset"} =>
          /\ \A v \in KeptValues :
                Held(KeepOf.refs, v) = Held(last.pre.refs, v) - Stored(last.pre, v)
          /\ Len(KeepOf.items) = 0
          /\ KeepOf.items = K_clear(IF engine = "thread" THEN KeepVector_new
                                    ELSE KeepAlive_new).items
          /\ KeepOf.refs = NoRefs

C23_Witness ==
    /\ engine = "thread"
    /\ last.kind = "clear"
    /\ Len(last.pre.items) = MaxKept
    /\ \E v \in KeptNodes : Stored(last.pre, v) = 2
    /\ KeepOf.refs = NoRefs
    /\ CapacityOf(KeepOf) = INITIAL_CAPACITY

\* a shrink leaves every stored element inside the allocation
ShrinkKeepsElements ==
    /\ Len(KeepOf.items) <= CapacityOf(KeepOf) \/ Len(KeepOf.items) = 0
    /\ last.kind = "shrink_if_large" =>
          /\ KeepOf.items = last.pre.items
          /\ KeepOf.refs = last.pre.refs
          /\ CapacityOf(KeepOf) <= CapacityOf(last.pre)

ShrinkToLength ==
    /\ last.kind = "shrink_if_large"
    /\ CapacityOf(KeepOf) < CapacityOf(last.pre)
    /\ CapacityOf(KeepOf) = Len(KeepOf.items)

\* ------------------------------------------------------------------------
\* When the shrink policy runs
\* ------------------------------------------------------------------------
\* the operations on the pooled memo that have started and not yet finished
\* when event i is recorded, other than the one event i belongs to
InFlightAt(i) ==
    {log[e].op : e \in {x \in Events("enter") :
        /\ x < i
        /\ log[x].v = NULL
        /\ log[x].op # log[i].op
        /\ ~\E y \in Events("exit") : y < i /\ log[y].op = log[x].op}}

\* C24 (as stated): the shrink policy of the retention buffer and of the
\* memo table runs only when the pair is returned to the pool, after both
\* have been cleared; it never runs while an operation on the pair is in
\* flight.
C24_ShrinkOnlyOnReturn ==
    \A i \in Events("reset") : InFlightAt(i) = {}

\* ------------------------------------------------------------------------
\* hash_pointer on its own: the thread hashes pointers one after the other;
\* memo is the table of the hashes it has seen, nops counts the calls.
\* ------------------------------------------------------------------------
MaxHashed == 40
MaxHashCalls == 2

\* the two pointers of memo.rs test_hash_pointer
TestPtr1 == 4660
TestPtr2 == 22136

HashInputs == {TestPtr1, TestPtr2} \cup {AddrOf(id) : id \in 1..MaxHashed}

\* 0xa61c2e50be6be66e and 0x32fd148c431c9466, the values of the finalizer
\* at 0x1234 and 0x5678 in 64-bit wrapping arithmetic
TestHash1 == <<110, 230, 107, 190, 80, 46, 28, 166>>
TestHash2 == <<102, 148, 28, 67, 140, 20, 253, 50>>

HashInit ==
    /\ engine \in Engines
    /\ heap = Universe
    /\ pool = [present |-> FALSE,
               pair |-> [table |-> MemoTable_new, keepalive |-> KeepAlive_new]]
    /\ tmemo = [present |-> FALSE]
    /\ root = R("none")
    /\ memo = <<>>
    /\ nops = 0
    /\ last = NoOp
    /\ log = <<>>

\* ffi.rs / rust/ffi.rs hash_pointer(ptr)
HashPointer ==
    /\ nops < MaxHashCalls
    /\ \E ptr \in HashInputs :
       \E h \in {IF ptr \in Pointers THEN hash_pointer(ptr) ELSE fmix64(ptr)} :
          /\ last' = [kind |-> "hash", k |-> ptr, v |-> h, pre |-> memo]
          /\ memo' = (ptr :> h) @@ memo
    /\ nops' = nops + 1
    /\ UNCHANGED <<engine, heap, pool, tmemo, root, log>>

HashNext == HashPointer

HashSpec == HashInit /\ [][HashNext]_vars

\* C25: hash_pointer is a function of the pointer value alone (a pointer
\* hashed again gives the hash it gave before), computed in arithmetic that
\* wraps modulo 2^64 (the hash is a 64-bit value, and at the pointers of
\* test_hash_pointer it is the value of the finalizer), and different
\* pointer values give different hashes.
C25_HashPointer ==
    /\ \A p \in DOMAIN memo : memo[p] \in [Limbs -> 0..255]
    /\ (last.kind = "hash" /\ last.k \in DOMAIN last.pre) => last.v = last.pre[last.k]
    /\ \A p, q \in DOMAIN memo : p # q => memo[p] # memo[q]
    /\ TestPtr1 \in DOMAIN memo => memo[TestPtr1] = TestHash1
    /\ TestPtr2 \in DOMAIN memo => memo[TestPtr2] = TestHash2

C25_Witness ==
    /\ last.kind = "hash"
    /\ last.k = TestPtr1
    /\ DOMAIN memo = {TestPtr1, TestPtr2}
    /\ memo[TestPtr1] # memo[TestPtr2]

\* ------------------------------------------------------------------------
\* Registration before the children
\* ------------------------------------------------------------------------
\* the kinds whose handler registers the clone before it walks the children:
\* mapping, growable sequence, set, reduce-reconstructed object
EagerKinds == {"dict", "list", "set", "obj"}

EagerBuilds == {b \in Events("build") : heap[log[b].k].kind \in EagerKinds}

\* the lookups of the node of build b that its own operation makes later
BackReferences(b) ==
    {l \in Events("lookup") : l > b /\ log[l].k = log[b].k /\ log[l].op = log[b].op}

\* C26: for a mapping, a growable sequence, a set and a reduce-reconstructed
\* object, the clone is registered in the memo under the original's identity
\* before any child of the node (element, key, value, state or extension
\* item) is cloned: the registration is the first thing the walk does after
\* building the clone, and every later lookup of the node in that operation,
\* a child's reference back to it included, gives the clone under
\* construction.
C26_RegisteredBeforeChildren ==
    (engine = "rust" /\ last.kind = "deepcopy") =>
        \A b \in EagerBuilds :
            /\ b + 1 \in Events("insert")
            /\ log[b + 1].k = log[b].k
            /\ log[b + 1].v = log[b].v
            /\ log[b + 1].op = log[b].op
            /\ \A l \in BackReferences(b) : log[l].v = log[b].v

C26_Witness ==
    /\ engine = "rust"
    /\ Cloned
    /\ root = R("o_cyc")
    /\ \E b \in EagerBuilds :
          /\ log[b].k = root
          /\ BackReferences(b) # {}
          /\ last.v = log[b].v
    /\ \E b \in EagerBuilds : log[b].k = R("d_cyc") /\ BackReferences(b) = {}

\* ------------------------------------------------------------------------
\* Lifetime of the memo keys
\* ------------------------------------------------------------------------
\* the objects the caller's reference to the root pins for the whole
\* operation; everything else (what a decomposition hook returned) lives
\* only as long as somebody holds a reference to it
CallerOwned == DOMAIN Universe

\* the retention buffer of the operation of event i received node k
KeptAliveIn(i, k) ==
    \E j \in Events("keepalive") : log[j].op = log[i].op /\ log[j].k = k

\* C27: during one clone operation every identity used as a key in the memo
\* belongs to an original the operation keeps alive until it ends (it is in
\* the retention buffer, or the caller's graph pins it), the temporary
\* objects a decomposition hook produced included.
C27_MemoKeysKeptAlive ==
    (engine = "rust" /\ last.kind = "deepcopy") =>
        \A i \in Events("insert") :
            log[i].k \in CallerOwned \/ KeptAliveIn(i, log[i].k)

\* ------------------------------------------------------------------------
\* Termination of the walk
\* ------------------------------------------------------------------------
\* the lookups that missed and sent the node to its handler (the miss of a
\* fixed sequence after its build is followed by the registration instead)
Entered ==
    {i \in Events("lookup") :
        /\ log[i].v = NULL
        /\ ~(i + 1 \in Events("insert") /\ log[i + 1].k = log[i].k)}

Between(i, j, ev) == {n \in Events(ev) : i < n /\ n < j /\ log[n].op = log[i].op}

\* the walk entered at j the node it had entered at i and not yet left, and
\* registered nothing in between: the memo at j is the memo at i, so the
\* walk from j repeats the walk from i, and so on for ever
Stalled(i, j) ==
    /\ i < j
    /\ log[i].op = log[j].op
    /\ log[i].k = log[j].k
    /\ \A n \in Between(i, j, "ret") : log[n].k # log[i].k
    /\ Between(i, j, "insert") = {}

\* C28: one clone operation over a finite graph terminates, reference cycles
\* through containers, through reduce state and through reduce constructor
\* arguments included: the walk never enters a node again without having
\* registered anything since it entered it, and it ends with a clone or with
\* an error of the engine, not by running out of stack.
C28_WalkTerminates ==
    (engine = "rust" /\ last.kind = "deepcopy") =>
        /\ \A i \in Entered : \A j \in Entered : ~Stalled(i, j)
        /\ (\E i \in Events("overflow") : log[i].op = 1) =>
               \E i \in Events("nest_enter") : TRUE

\* ------------------------------------------------------------------------
\* The fixed sequence after its build
\* ------------------------------------------------------------------------
TupleBuilds == {b \in Events("build") : heap[log[b].k].kind = "tuple"}

\* the event that settles build b: its registration or its discard
Settled(b) ==
    {x \in Events("insert") \cup Events("discard") :
        x > b /\ log[x].op = log[b].op /\ log[x].k = log[b].k /\ log[x].v = log[b].v}

\* what the walks of node t returned in the operation of event x
ReturnedFor(x, t) ==
    {log[r].v : r \in {n \in Events("ret") : log[n].op = log[x].op /\ log[n].k = t}}

CtorRaises(x) ==
    LET ctor == ScriptOf(heap[x]).ctor
    IN  IF ctor = "typeerror" THEN "TypeError"
        ELSE IF ctor = "raise" THEN "Exception"
        ELSE ""

FailedCtors == {c \in TopEvents("ctor") : CtorRaises(log[c].k) # ""}

\* C30: when the constructor call of a reduce decomposition raises, the
\* whole operation fails with the error the constructor raised, and the
\* engine does not go on with the node: it neither decomposes it nor calls
\* its constructor again.
C30_ConstructorErrorVerbatim ==
    (engine = "rust" /\ last.kind = "deepcopy") =>
        \A c \in FailedCtors :
            /\ ~last.ok
            /\ last.e = CtorRaises(log[c].k)
            /\ \A n \in TopEvents("reduce_ex") \cup TopEvents("reduce") \cup TopEvents("ctor") :
                   log[n].k = log[c].k => n <= c

\* ------------------------------------------------------------------------
\* The tiers of the decomposition protocol
\* ------------------------------------------------------------------------
\* what the scripted hook of tier ev does for node x
TierOf(ev, x) == IF ev = "reduce_ex" THEN ScriptOf(heap[x]).rex ELSE ScriptOf(heap[x]).red

\* the kind of the exception that hook raises ("" when it returns)
HookRaises(ev, x) ==
    IF TierOf(ev, x) = "typeerror" THEN "TypeError"
    ELSE IF TierOf(ev, x) = "raise" THEN "Exception"
    ELSE ""

TierEvents == TopEvents("reduce_ex") \cup TopEvents("reduce")

\* the calls of a decomposition hook of an instance that raised
RaisedHooks ==
    {i \in TierEvents : heap[log[i].k].kind = "obj" /\ HookRaises(log[i].ev, log[i].k) # ""}

\* the instances the top-level walk sent to the reduce path
Decomposed ==
    {log[i].k : i \in {n \in Entered : log[n].op = 1
                          /\ heap[log[n].k].kind = "obj"
                          /\ ~has_deepcopy(heap[log[n].k])}}

\* C31: a decomposition hook that is not found makes the engine fall back to
\* the next tier (extended, then basic, then field copy); a hook that is
\* found and raises ends the operation with that error, and no other tier is
\* tried for the node.
C31_TierFallback ==
    (engine = "rust" /\ last.kind = "deepcopy" /\ Events("overflow") = {}) =>
        /\ \A i \in RaisedHooks :
              /\ ~last.ok
              /\ last.e = HookRaises(log[i].ev, log[i].k)
              /\ \A n \in TierEvents \cup TopEvents("ctor") : log[n].k = log[i].k => n <= i
        /\ \A x \in Decomposed :
              /\ (TierOf("reduce_ex", x) = "noattr" /\ TierOf("reduce", x) # "noattr") =>
                     \E n \in TopEvents("reduce") : log[n].k = x
              /\ (TierOf("reduce_ex", x) = "noattr" /\ TierOf("reduce", x) = "noattr") =>
                     last.ok

\* ------------------------------------------------------------------------
\* The cannot-copy error
\* ------------------------------------------------------------------------
\* the instances sent to the reduce path that expose neither hook
Uncopyable ==
    {x \in Decomposed :
        TierOf("reduce_ex", x) = "noattr" /\ TierOf("reduce", x) = "noattr"}

\* C32: a node with no override hook and no usable decomposition hook makes
\* the deep clone fail with the cannot-copy error (copy.Error), which is not
\* the generic failure (RuntimeError) other internal errors are reported as.
C32_CannotCopyError ==
    (engine = "rust" /\ last.kind = "deepcopy") =>
        (Uncopyable # {} => (~last.ok /\ last.e = "copy.Error"))

\* ------------------------------------------------------------------------
\* Best-effort state and extension items
\* ------------------------------------------------------------------------
\* the builds of reconstructed instances in the top-level operation
Reconstructed == {b \in TopEvents("build") : heap[log[b].k].kind = "obj"}

\* the size of the decomposition the build b was made from
ReducedSize(b) ==
    LET tiers == {n \in TierEvents : n < b /\ log[n].k = log[b].k}
    IN  log[CHOOSE n \in tiers : \A o \in tiers : o <= n].v

\* the positions of a sequence of nodes whose clone succeeded
ClonedAt(nodes) == {i \in DOMAIN nodes : Rets(nodes[i]) # {}}

\* the mapping-extension pairs of x that can be inserted: key and value
\* cloned, and the clone of the key hashable
Insertable(x) ==
    {i \in ClonedAt(heap[x].keys) \cap ClonedAt(heap[x].vals) :
        \A k \in Rets(heap[x].keys[i]) : Hashable(heap, k, Len(heap))}

Range(f) == {f[i] : i \in DOMAIN f}

\* C33: a failure while applying state, appending a sequence-extension item
\* or inserting a mapping-extension item does not abort the clone: the item
\* is skipped, the others are processed, and the reconstructed object is
\* returned and stays registered under the original.
C33_BestEffortItems ==
    (engine = "rust" /\ last.kind = "deepcopy" /\ Events("overflow") = {}) =>
        \A b \in Reconstructed :
            LET x == log[b].k
                new == log[b].v
            IN  (heap[x].attrs # NULL => Rets(heap[x].attrs) # {}) =>
                /\ \E r \in TopEvents("ret") : r > b /\ log[r].k = x /\ log[r].v = new
                /\ \A i \in TopEvents("insert") : log[i].k = x => log[i].v = new
                /\ b + 1 \in TopEvents("insert") /\ log[b + 1].k = x
                /\ memo # NULL => PyDict_GetItemInt(heap, memo, AddrOf(x)) = new
                /\ ReducedSize(b) > 3 =>
                       /\ Len(heap[new].items) = Cardinality(ClonedAt(heap[x].items))
                       /\ \A j \in DOMAIN heap[new].items :
                              \E i \in ClonedAt(heap[x].items) :
                                  heap[new].items[j] \in Rets(heap[x].items[i])
                /\ ReducedSize(b) > 4 =>
                       /\ Len(heap[new].keys) = Cardinality(Insertable(x))
                       /\ \A i \in Insertable(x) :
                              \E j \in DOMAIN heap[new].keys :
                                  /\ heap[new].keys[j] \in Rets(heap[x].keys[i])
                                  /\ heap[new].vals[j] \in Rets(heap[x].vals[i])

\* o_itemsbad: the restore-state hook raises, the first extension item cannot
\* be cloned, the first extension pair has an unhashable key and the second
\* a value that cannot be cloned; the clone holds the remaining item and pair
C33_Witness ==
    /\ engine = "rust"
    /\ Cloned
    /\ root = R("o_itemsbad")
    /\ \E s \in TopEvents("setstate") : log[s].k = last.v
    /\ Len(heap[last.v].items) = 1
    /\ Len(heap[root].items) = 2
    /\ Len(heap[last.v].keys) = 1
    /\ Len(heap[root].keys) = 3
    /\ heap[heap[last.v].items[1]].kind = "list"
    /\ heap[last.v].items[1] # R("l_inner")
    /\ heap[last.v].vals[1] = heap[last.v].items[1]

\* ------------------------------------------------------------------------
\* State restoration
\* ------------------------------------------------------------------------
\* the reconstructions whose state was cloned and handed to the application
WithState ==
    {b \in Reconstructed :
        /\ ReducedSize(b) > 2
        /\ heap[log[b].k].attrs # NULL
        /\ Rets(heap[log[b].k].attrs) # {}}

\* the entries of mapping d, in order
Entries(d) == [i \in DOMAIN heap[d].keys |-> <<heap[d].keys[i], heap[d].vals[i]>>]

IsPrefix(a, c) == Len(a) <= Len(c) /\ SubSeq(c, 1, Len(a)) = a

\* the clone of the state of build b was built while the state was walked
\* for b; otherwise the walk found it in the memo, possibly still under
\* construction higher up, and the application saw the entries it had then
BuiltForState(b) ==
    \E n \in TopEvents("build") : n > b /\ log[n].k = heap[log[b].k].attrs

\* C34: state restoration takes one path.  With a restore-state hook the hook
\* is called once with the cloned state and nothing else is applied; without
\* one, a mapping state updates the attribute mapping of the clone and a
\* 2-element tuple state updates it from its first element and assigns the
\* fields named in its second.  The state applied is the clone of the state,
\* never the original.
C34_StateRestoration ==
    (engine = "rust" /\ last.kind = "deepcopy" /\ Events("overflow") = {}) =>
        \A b \in WithState :
            LET x == log[b].k
                new == log[b].v
                hook == ScriptOf(heap[x]).setstate
                calls == {n \in TopEvents("setstate") : log[n].k = new}
            IN  \A cs \in Rets(heap[x].attrs) :
                /\ cs # heap[x].attrs
                /\ hook # "none" =>
                       /\ Cardinality(calls) = 1
                       /\ \A n \in calls : log[n].v = cs
                       /\ hook = "raise" => Entries(heap[new].attrs) = <<>>
                       /\ hook = "ok" => heap[new].attrs = cs
                /\ hook = "none" =>
                       /\ calls = {}
                       /\ heap[new].attrs \notin {cs, heap[x].attrs}
                       /\ heap[cs].kind = "dict" =>
                              /\ IsPrefix(Entries(heap[new].attrs), Entries(cs))
                              /\ BuiltForState(b) =>
                                     Entries(heap[new].attrs) = Entries(cs)
                       /\ (heap[cs].kind = "tuple" /\ Len(heap[cs].items) = 2) =>
                              Entries(heap[new].attrs) =
                                  Entries(heap[cs].items[1]) \o Entries(heap[cs].items[2])

\* o_slots: the state is (d_attr, d_slot); the clone's attribute mapping
\* holds the clones of both values
C34_Witness ==
    /\ engine = "rust"
    /\ Cloned
    /\ root = R("o_slots")
    /\ WithState # {}
    /\ Len(heap[heap[last.v].attrs].keys) = 2
    /\ heap[heap[last.v].attrs].vals[1] = heap[heap[last.v].attrs].vals[2]
    /\ heap[heap[last.v].attrs].vals[1] # R("l_inner")
    /\ heap[heap[heap[last.v].attrs].vals[1]].kind = "list"

\* o_setstate: the hook received the cloned state and nothing else ran
C34_WitnessHook ==
    /\ engine = "rust"
    /\ Cloned
    /\ root = R("o_setstate")
    /\ \E n \in TopEvents("setstate") : log[n].k = last.v /\ log[n].v = heap[last.v].attrs
    /\ heap[last.v].attrs # R("d_attr")

\* ------------------------------------------------------------------------
\* Decompositions that mean "return the original"
\* ------------------------------------------------------------------------
\* the hook calls of instances that answered with a text, or with a tuple of
\* fewer than 2 elements
Unchanged ==
    {i \in TierEvents :
        /\ heap[log[i].k].kind = "obj"
        /\ \/ TierOf(log[i].ev, log[i].k) = "str"
           \/ TierOf(log[i].ev, log[i].k) = "tuple" /\ log[i].v < 2}

\* C35: when the decomposition of a node is a text, or a tuple with fewer
\* than 2 elements, the clone of the node is the node itself: the
\* constructor is not called and the memo gets no entry for the node.
C35_ReturnOriginal ==
    (engine = "rust" /\ last.kind = "deepcopy") =>
        \A i \in Unchanged :
            LET x == log[i].k
            IN  /\ i + 1 \in TopEvents("ret")
                /\ log[i + 1].k = x
                /\ log[i + 1].v = x
                /\ Rets(x) = {x}
                /\ \A n \in TopEvents("ctor") \cup TopEvents("build") \cup TopEvents("insert") :
                       log[n].k # x
                /\ memo # NULL =>
                       PyDict_GetItemInt(heap, memo, AddrOf(x)) =
                           PyDict_GetItemInt(last.pre, memo, AddrOf(x))

C35_Witness ==
    /\ engine = "rust"
    /\ Cloned
    /\ root = R("o_str")
    /\ last.v = root
    /\ memo = R("m_empty")
    /\ Unchanged # {}
    /\ PyDict_GetItemInt(heap, memo, AddrOf(root)) = NULL

\* the same for a decomposition of one element
C35_WitnessShort ==
    /\ engine = "rust"
    /\ Cloned
    /\ root = R("o_one")
    /\ last.v = root
    /\ Unchanged # {}

\* ------------------------------------------------------------------------
\* The set is cloned from a snapshot
\* ------------------------------------------------------------------------
\* the builds of sets the top-level operation completed
SetBuilds ==
    {b \in TopEvents("build") :
        heap[log[b].k].kind = "set" /\ log[b].v \in Rets(log[b].k)}

ContainerKinds == {"dict", "list", "tuple", "set", "frozenset", "bytearray"}

\* the events of the walk of node x that show which path it took
HookCalls(x) == {n \in Events("deepcopy") : log[n].k = x}
TierCalls(x) == {n \in Events("reduce_ex") \cup Events("reduce") : log[n].k = x}

\* every node a container cloner took is of the exact built-in kind of the
\* clone it built, and every node of a built-in kind got a clone of its kind
ExactKindBuilds ==
    \A b \in Events("build") :
        /\ heap[log[b].v].kind \in ContainerKinds =>
               heap[log[b].k].kind = heap[log[b].v].kind
        /\ heap[log[b].k].kind \in ContainerKinds =>
               heap[log[b].v].kind = heap[log[b].k].kind

\* the order of the tests in rust/dispatch.rs, read from the events of a walk
PriorityOrder ==
    /\ \A i \in Events("lookup") \cup Events("build") :
           ~is_immutable_literal(heap[log[i].k])
    /\ \A i \in Entered :
           LET x == log[i].k
           IN  IF heap[x].kind \in ContainerKinds
               THEN /\ HookCalls(x) = {} /\ TierCalls(x) = {}
                    /\ heap[x].kind # "frozenset" =>
                           (log[i + 1].ev = "build" /\ log[i + 1].k = x)
               ELSE IF has_deepcopy(heap[x])
               THEN /\ log[i + 1].ev = "deepcopy" /\ log[i + 1].k = x
                    /\ TierCalls(x) = {}
               ELSE /\ HookCalls(x) = {}
                    /\ \A n \in Events("build") : log[n].k = x =>
                           \E t \in TierCalls(x) : t < n

\* C37: the walk tests for an atom first, then compares the exact kind with
\* the built-in kinds, then looks for the override hook, then falls back to
\* the decomposition.  A node of an exact built-in kind goes to its container
\* cloner; a node of any other type, a subclass of a built-in kind or a type
\* that has the name of one included, never goes to a container cloner.
C37_DispatchPriority ==
    (last.kind \in {"deepcopy", "copium_deepcopy"}) =>
        /\ ExactKindBuilds
        /\ engine = "rust" => PriorityOrder

\* the pointer comparisons of rust/types.rs keep the order and the kinds
RustDispatchPriority ==
    (engine = "rust" /\ last.kind = "deepcopy") => (ExactKindBuilds /\ PriorityOrder)

\* o_named is an instance of a class that a program named dict: it is
\* decomposed and reconstructed as an instance
RustNameSharingDecomposed ==
    /\ engine = "rust"
    /\ Cloned
    /\ root = R("o_named")
    /\ TierCalls(root) # {}
    /\ heap[last.v].kind = "obj"
    /\ heap[last.v].cls = "dict"
    /\ last.v # root
    /\ \E b \in Events("build") : log[b].k = R("d_attr") /\ heap[log[b].v].kind = "dict"

\* the other draft compares names: the same instance goes to the mapping
\* cloner and comes back as an empty mapping
NameSharingAsMapping ==
    /\ engine = "thread"
    /\ last.kind = "copium_deepcopy"
    /\ last.ok
    /\ root = R("o_named")
    /\ heap[last.v].kind = "dict"


\* ------------------------------------------------------------------------
\* The thread's memo under an allocator that can refuse: insert, append, a
\* clone of a mapping and the reset between calls.  memo is the mapping the
\* table should hold; a behaviour ends with the clone.
\* ------------------------------------------------------------------------
MaxAppends == 9
MaxAvail == 2

\* an empty mapping, a mapping whose value has an override hook, and a mapping
\* this draft cannot clone whatever the allocator does (its key is a string)
GrowRoots == {R("m_empty"), R("d_nest"), R("d_attr")}

GrowInit ==
    /\ engine = "thread"
    /\ heap = Universe
    /\ pool = [present |-> FALSE,
               pair |-> [table |-> MemoTable_new, keepalive |-> KeepAlive_new]]
    /\ tmemo = [present |-> TRUE, memo |-> ThreadMemo_new]
    /\ root = R("none")
    /\ memo = <<>>
    /\ nops = 0
    /\ last = NoOp
    /\ log = <<>>

GrowCall(kind, k, v, r, avail) ==
    [kind |-> kind, ok |-> r.ok, k |-> k, v |-> v, e |-> "", pre |-> tmemo.memo,
     avail |-> avail]

\* table.insert_with_hash(k, v, hash(k)): a key registered for the first
\* time, or the first key again
GrowInsert ==
    /\ log = <<>>
    /\ \E k \in NextKeys \cup (DOMAIN memo \cap {AddrOf(KeyIds[1])}) :
       \E v \in IF k \in DOMAIN memo THEN TableValues ELSE {R("l_inner")} :
       \E avail \in {0, MaxAvail} :
       \E r \in {ts_try_insert_with_hash(tmemo.memo.table, k, v, hash_pointer(k), avail)} :
          /\ tmemo' = [tmemo EXCEPT !.memo.table = r.t]
          /\ memo' = IF r.ok THEN (k :> v) @@ memo ELSE memo
          /\ last' = GrowCall("insert", k, v, r, avail)
    /\ UNCHANGED <<engine, heap, pool, root, nops, log>>

\* keepalive.append(obj)
GrowAppend ==
    /\ log = <<>>
    /\ Len(tmemo.memo.keepalive.items) < MaxAppends
    /\ \E avail \in {0, MaxAvail} :
       \E r \in {KeepVector_try_append(tmemo.memo.keepalive, R("l_inner"), avail)} :
          /\ tmemo' = [tmemo EXCEPT !.memo.keepalive = r.t]
          /\ last' = GrowCall("append", NULL, R("l_inner"), r, avail)
    /\ UNCHANGED <<engine, heap, pool, root, memo, nops, log>>

\* the reset between two calls of the thread
GrowReset ==
    /\ last.kind \in {"insert", "append"}
    /\ tmemo' = [tmemo EXCEPT !.memo = ThreadMemo_reset(@)]
    /\ memo' = <<>>
    /\ last' = [NoOp EXCEPT !.kind = "reset"]
    /\ UNCHANGED <<engine, heap, pool, root, nops, log>>

\* copium.deepcopy(x) of a mapping x, once, on a memo that holds nothing
GrowClone ==
    /\ log = <<>>
    /\ LiveEntries(tmemo.memo.table) = {}
    /\ tmemo.memo.keepalive.items = <<>>
    /\ \E x \in GrowRoots : \E avail \in 0..MaxAvail :
       \E c \in {[user_memo |-> NULL, use_thread_memo |-> TRUE, op |-> 1, ub |-> "null"]} :
       \E r \in {try_copy_dict(Log([Machine EXCEPT !.nop = 1], "enter", c, x, NULL),
                               x, c, MaxDepth - 1, avail)} :
          /\ root' = x
          /\ heap' = r.st.heap
          /\ tmemo' = cleanup_after_call(r.st).tm
          /\ log' = Log(r.st, "exit", c, r.v, IF r.ok THEN 1 ELSE 0).log
          /\ last' = [kind |-> "clone", ok |-> r.ok, k |-> x, v |-> r.v, e |-> r.e,
                      pre |-> tmemo.memo, avail |-> avail]
    /\ memo' = <<>>
    /\ UNCHANGED <<engine, pool, nops>>

GrowNext == GrowInsert \/ GrowAppend \/ GrowReset \/ GrowClone

GrowSpec == GrowInit /\ [][GrowNext]_vars

\* the operation needs the table (the buffer) to grow
TableMustGrow(t) ==
    t.size = 0 \/ t.filled * LOAD_FACTOR_DEN >= t.size * LOAD_FACTOR_NUM
BufferMustGrow(k) == Len(k.items) >= k.capacity

\* the requests a clone of one mapping makes on a memo that holds nothing
CloneRequests(tm) ==
    (IF tm.table.size = 0 THEN 1 ELSE 0) + (IF tm.keepalive.capacity = 0 THEN 1 ELSE 0)

\* C38: if growing the memo table or the retention buffer fails, insert
\* (append) returns an error and leaves the table (the buffer) exactly as it
\* was, entries, counts, capacity and references; the clone in progress then
\* ends with an error and returns no clone.  Nothing else makes them fail.
C38_GrowthFailure ==
    /\ last.kind = "insert" =>
           /\ ~last.ok <=> (TableMustGrow(last.pre.table) /\ last.avail = 0)
           /\ ~last.ok => tmemo.memo.table = last.pre.table
           /\ last.ok => ts_MemoTable_lookup_with_hash(tmemo.memo.table, last.k,
                                                       hash_pointer(last.k)) = last.v
    /\ last.kind = "append" =>
           /\ ~last.ok <=> (BufferMustGrow(last.pre.keepalive) /\ last.avail = 0)
           /\ ~last.ok => tmemo.memo.keepalive = last.pre.keepalive
           /\ last.ok => tmemo.memo.keepalive.items =
                             Append(last.pre.keepalive.items, last.v)
    /\ last.kind \in {"insert", "append"} =>
           /\ \A v \in TableValues :
                  Held(tmemo.memo.table.refs, v) = Cardinality(Holders(tmemo.memo.table, v))
           /\ \A v \in TableValues :
                  Held(tmemo.memo.keepalive.refs, v) = Stored(tmemo.memo.keepalive, v)
    /\ last.kind = "clone" =>
           /\ last.avail < CloneRequests(last.pre) =>
                  (~last.ok /\ last.e = "SystemError")
           /\ ~last.ok => last.v = NULL
           /\ (~last.ok /\ root # R("d_attr")) => last.avail < CloneRequests(last.pre)
           /\ last.ok => /\ heap[last.v].kind = "dict"
                         /\ last.v \notin DOMAIN last.pre.table.refs
                         /\ Len(heap[last.v].keys) = Len(heap[last.k].keys)

\* an insert that needs a table of six entries to double is refused
C38_Witness ==
    /\ last.kind = "insert"
    /\ ~last.ok
    /\ last.pre.table.used >= 6
    /\ tmemo.memo.table.size = INITIAL_SIZE

\* an append to a full buffer is refused
RefusedAppend ==
    /\ last.kind = "append"
    /\ ~last.ok
    /\ Len(tmemo.memo.keepalive.items) = INITIAL_CAPACITY

\* a clone ends at the append of the new mapping, after its insert
RefusedClone ==
    /\ last.kind = "clone"
    /\ ~last.ok
    /\ last.avail = 1
    /\ last.pre.table.size = 0
    /\ root = R("d_nest")

\* a clone that needs no growth succeeds with an allocator that refuses
CloneWithoutGrowth ==
    /\ last.kind = "clone"
    /\ last.ok
    /\ last.avail = 0
    /\ root = R("d_nest")


\* ------------------------------------------------------------------------
\* References handed out at a memo hit
\* ------------------------------------------------------------------------
Hits == {i \in Events("lookup") : log[i].v # NULL}
\* the operation of hit i walks a memo its caller supplied (the caller of the
\* top-level operation, or an override hook that passes its memo on)
Supplied(i) == \E e \in Events("enter") : log[e].op = log[i].op /\ log[e].v # NULL

\* C40: a memo hit during the walk takes exactly one new owning reference on
\* the memoized clone, the one handed to the caller, whether the memo is the
\* pooled table or a memo the caller supplied: no hit leaves a second
\* reference that nobody releases.
C40_OneReferencePerHit ==
    (engine = "rust" /\ last.kind = "deepcopy") =>
        \A i \in Hits : log[i].refs = 1

\* the pooled table alone: every hit takes one reference
PooledHitsBalanced ==
    (engine = "rust" /\ last.kind = "deepcopy") =>
        \A i \in Hits : ~Supplied(i) => log[i].refs = 1

\* a hit on the pooled table is reached
PooledHit ==
    /\ engine = "rust"
    /\ Cloned
    /\ \E i \in Hits : ~Supplied(i) /\ log[i].refs = 1

\* every hit on a supplied memo takes two
SuppliedHitsDouble ==
    (engine = "rust" /\ last.kind = "deepcopy") =>
        \A i \in Hits : Supplied(i) => log[i].refs = 2

============================================================================
